---- MODULE Spec2Model ----
(***************************************************************************)
(* Verification model of the New Year's goals page (rogersanick/nye-2025): *)
(*   - ShaderFireworks: the capped list of active shader explosions,       *)
(*   - the 9 PM Eastern countdown arithmetic of App.tsx,                   *)
(*   - the goals page of App.tsx: client configuration, goal submission,   *)
(*     initial load, realtime INSERT notifications,                        *)
(*   - the Greg page of App.tsx: password gate, full-text query, publish,  *)
(*   - formatSupabaseDataError, ScrollIndicator, ScrollingNumber.          *)
(* Each part has its own specification over the shared variables.          *)
(***************************************************************************)
EXTENDS Integers, Sequences, FiniteSets, TLC

\* ------------------------------------------------------------------------
\* Bounds of the model
\* ------------------------------------------------------------------------
\* capacities tried for the maxExplosions prop: 1..MaxCapacity
MaxCapacity == 3
\* number of spawn calls in one run of the render loop
LoopSpawns == 2

\* number of spawn calls in one run
MaxSpawns == 3
\* explicit durations passed in options: 1..MaxDuration time units
MaxDuration == 2
\* largest elapsed time of one render frame, in time units (0 is possible)
MaxDelta == 2

\* options.duration ?? 2.6 : the default duration, in time units of 1.3 s
DefaultDuration == 2

\* resolution of the clock: ticks per hour
TicksPerHour == 2
\* the countdown is followed over the days 0 .. MaxDays - 1 (UTC)
MaxDays == 3
\* largest advance of Date.now() between two countdown ticks, in ticks
MaxStep == 2
\* the UTC day of the window on which the daylight-saving change falls
TransitionDay == 1
\* number of runs of handleGoalSubmit in one run of the model
MaxSubmits == 2
\* length the goals list is cut to, .slice(0, 50), scaled down
GoalsLimit == 2
\* other guests insert a goal only while the table has fewer rows than this
MaxRows == 3
\* number of full-text goal queries of the Greg page in one run
MaxQueries == 2
\* number of runs of handlePublishGregUpdate in one run
MaxPublishes == 2
\* error messages are a phrase with 0 .. MaxPad other characters on each side
MaxPad == 1
\* ScrollIndicator: the page has 1 .. MaxSections sections
MaxSections == 3
\* ScrollIndicator: heights of sections and of the viewport are 1 .. MaxHeight
MaxHeight == 2
\* ScrollIndicator: padding above the first section is 0 .. MaxPadding
MaxPadding == 1
\* ScrollingNumber: the value prop ranges over 0 .. MaxValue
MaxValue == 10
\* ScrollingNumber: number of changes of the value prop in one run
MaxValueChanges == 2
\* pumpkin scene: the maximum K ranges over 1 .. MaxPumpkins
MaxPumpkins == 3
\* pumpkin scene: the lifetime ranges over 1 .. MaxLifetime time units
MaxLifetime == 3
\* pumpkin scene: the cadence of the timer, in time units
TickCadence == 1
\* pumpkin scene: a tick comes up to MaxLate time units after its cadence
MaxLate == 2
\* pumpkin scene: number of ticks in one run
MaxTicks == 4
\* ScrollingNumber long after its reveal: the columns stand within this many
\* rows below the normalization threshold
LateRows == 20

VARIABLES
  groupRef,       \* ShaderFireworks: groupRef.current is attached (mounted)
  maxExplosions,  \* ShaderFireworks: the maxExplosions prop
  active,         \* explosionsRef.current: sequence of explosion objects (ids)
  objs,           \* every Explosion object created so far: id -> fields
  group,          \* children of the render group (ids of their points)
  disposed,       \* explosions whose geometry and material were disposed
  calls,          \* the duration option of each spawn call made so far
  removedInFrame, \* the explosions the latest frame advance removed
  countdownNowMs, \* App: countdownNowMs state, in ticks since day 0, 00:00 UTC
  dstRule,        \* America/New_York rule in force around day TransitionDay
  hourCycle,      \* hour cycle the engine resolves for en-US with hour12: false
  zParts,         \* zonedTimeToUtc: the DateParts argument
  zResult,        \* zonedTimeToUtc: the returned instant
  zDone,          \* zonedTimeToUtc: the call has returned
  supabaseUrl,            \* VITE_SUPABASE_URL || SUPABASE_URL
  supabasePublishableKey, \* VITE_..._PUBLISHABLE_DEFAULT_KEY || ..._PUBLISHABLE_DEFAULT_KEY
  supabaseAnonKey,        \* VITE_SUPABASE_ANON_KEY || SUPABASE_ANON_KEY
  sbConfigured,   \* App: supabaseRef.current is a client (not null)
  displayName,    \* App: the name field, a sequence of characters
  goalTitle,      \* App: the title field
  goalText,       \* App: the goal text field
  goalSubmitLoading,
  goalSubmitError,
  goalSubmitSuccess,
  confetti,
  goals,          \* App: the in-memory public goals list
  goalCount,
  dbGoals,        \* backend: rows of table goals_2025, in insertion order
  pendingInsert,  \* insert request sent and not yet processed: <<>> or <<row>>
  insertResponse, \* insert response not yet applied: <<>> or <<response>>
  insertCalls,    \* number of insert requests this client has issued
  submits,        \* number of times handleGoalSubmit has run
  appMounted,     \* App: the mount effects have run
  loadPending,    \* the queries of load() are sent and not yet answered
  loadResponse,   \* answer of load() not yet applied: <<>> or <<response>>
  supabaseDataError,
  channelSubscribed, \* the realtime channel goals_2025_goalcount is subscribed
  realtimeQueue,  \* INSERT notifications on their way to this client
  loc,            \* useLocationSnapshot: [pathname, hash]
  expectedPassword, \* VITE_GREG_PAGE_PASSWORD ?? ''
  gregPassword,
  gregUnlocked,
  gregGoals,
  gregQueries,    \* number of full-text goal queries issued (loadGregGoals)
  gregQueriesInFlight, \* full-text queries not yet answered
  updateTitle,
  updateBody,
  updateVideoFile, \* <<>> (null) or <<file name>>
  gregActionLoading,
  gregActionError,
  gregActionSuccess,
  uploadPending,  \* the video upload is awaited: <<>> or <<the row to insert after it>>
  updateInsertPending, \* the greg_updates insert is awaited: <<>> or <<row>>
  uploadCalls,    \* number of storage uploads issued
  updateInsertCalls, \* number of greg_updates inserts issued
  publishes,      \* number of times handlePublishGregUpdate has run
  dbUpdates,      \* backend: rows of table greg_updates
  latestUpdate,   \* App: latestUpdate state, <<>> (null) or <<row>>
  fmtErr,         \* formatSupabaseDataError: the argument, <<>> (null) or <<err>>
  fmtResult,      \* formatSupabaseDataError: the returned value
  fmtDone,        \* formatSupabaseDataError: the call has returned
  sectionElements, \* ScrollIndicator: offsetTop and offsetHeight of each section
  clientHeight,   \* scroll container: clientHeight
  scrollTop,      \* scroll container: scrollTop
  activeSection,  \* ScrollIndicator: activeSection state (0-based)
  lastHandler,    \* ScrollIndicator: the handler that ran last
  snPhase,        \* ScrollingNumber: "new", "mounted" or "unmounted"
  snValue,        \* ScrollingNumber: the value prop
  snReduced,      \* ScrollingNumber: reducedMotion state
  snPositions,    \* ScrollingNumber: positionsFromRight
  snFirstRevealDone, \* firstRevealDoneRef.current
  snTimeout,      \* the reveal timeout while it is pending: <<>> or <<closure>>
  snRaf,          \* the animation frame while it is pending: <<>> or <<closure>>
  snCleanup,      \* the latest run of the value effect returned a cleanup
  snChanges,      \* number of changes of the value prop so far
  snNormalized,   \* the latest change of the positions was a normalization
  pumpkinMax,     \* pumpkin scene: the configured maximum K of retained pumpkins
  pumpkinLifetime, \* pumpkin scene: the configured lifetime
  pumpkins,       \* pumpkin scene: the retained collection, oldest first
  pumpkinNow,     \* pumpkin scene: the time of the latest tick
  pumpkinTicks,   \* number of ticks so far (the id counter)
  pumpkinsExpired, \* ids removed so far because their age reached the lifetime
  pumpkinsCut     \* ids removed so far by the truncation to the newest K

fwVars == <<groupRef, maxExplosions, active, objs, group, disposed, calls, removedInFrame>>
cdVars == <<countdownNowMs, dstRule, hourCycle, zParts, zResult, zDone>>

formVars == <<displayName, goalTitle, goalText>>
statusVars == <<goalSubmitLoading, goalSubmitError, goalSubmitSuccess, confetti>>
listVars == <<goals, goalCount>>
netVars == <<dbGoals, pendingInsert, insertResponse, insertCalls>>
envVars == <<supabaseUrl, supabasePublishableKey, supabaseAnonKey, sbConfigured>>
loadVars == <<appMounted, loadPending, loadResponse, supabaseDataError>>
rtVars == <<channelSubscribed, realtimeQueue>>
goalVars == <<envVars, formVars, statusVars, listVars, netVars, submits, loadVars, rtVars>>

gateVars == <<expectedPassword, gregPassword, gregUnlocked>>
gregQueryVars == <<gregGoals, gregQueries, gregQueriesInFlight>>
publishFormVars == <<updateTitle, updateBody, updateVideoFile>>
publishStatusVars == <<gregActionLoading, gregActionError, gregActionSuccess>>
publishNetVars == <<uploadPending, updateInsertPending, uploadCalls, updateInsertCalls,
                    publishes, dbUpdates>>
gregButLatest == <<loc, gateVars, gregQueryVars, publishFormVars, publishStatusVars,
                   publishNetVars>>
gregVars == <<gregButLatest, latestUpdate>>

fmtVars == <<fmtErr, fmtResult, fmtDone>>
scrollVars == <<sectionElements, clientHeight, scrollTop, activeSection, lastHandler>>
snVars == <<snPhase, snValue, snReduced, snPositions, snFirstRevealDone, snTimeout,
            snRaf, snCleanup, snChanges, snNormalized>>

pumpkinVars == <<pumpkinMax, pumpkinLifetime, pumpkins, pumpkinNow, pumpkinTicks,
                 pumpkinsExpired, pumpkinsCut>>

vars == <<fwVars, cdVars, goalVars, gregVars, fmtVars, scrollVars, snVars, pumpkinVars>>

\* what the actions of App leave alone
appOthers == <<fwVars, cdVars, fmtVars, scrollVars, snVars, pumpkinVars>>
\* what the ShaderFireworks actions leave alone
fwOthers == <<cdVars, goalVars, gregVars, fmtVars, scrollVars, snVars, pumpkinVars>>
\* what the countdown actions leave alone
cdOthers == <<fwVars, goalVars, gregVars, fmtVars, scrollVars, snVars, pumpkinVars>>
\* what the goal actions leave alone
goalOthers == <<appOthers, gregVars>>
\* what the actions of the Greg page leave alone
gregOthers == <<appOthers, goalVars>>
\* what the formatSupabaseDataError call leaves alone
fmtOthers == <<fwVars, cdVars, goalVars, gregVars, scrollVars, snVars, pumpkinVars>>
\* what the ScrollIndicator actions leave alone
scrollOthers == <<fwVars, cdVars, goalVars, gregVars, fmtVars, snVars, pumpkinVars>>
\* what the ScrollingNumber actions leave alone
snOthers == <<fwVars, cdVars, goalVars, gregVars, fmtVars, scrollVars, pumpkinVars>>
\* what the pumpkin timer leaves alone
pumpkinOthers == <<fwVars, cdVars, goalVars, gregVars, fmtVars, scrollVars, snVars>>

\* ShaderFireworks before its first commit
FireworksIdle ==
  /\ groupRef = FALSE
  /\ active = <<>>
  /\ objs = <<>>
  /\ group = {}
  /\ disposed = {}
  /\ calls = <<>>
  /\ removedInFrame = {}

\* the countdown part when it is not under study
CountdownIdle ==
  /\ countdownNowMs = 0
  /\ dstRule = "none"
  /\ hourCycle = "h23"
  /\ zParts = [day |-> 0, hour |-> 0, minute |-> 0]
  /\ zResult = 0
  /\ zDone = FALSE

\* an optional value: undefined is {}, the value d is {d}
Undefined == {}
Some(d) == {d}
ValueOf(opt) == CHOOSE d \in opt : TRUE

\* no message: the null of goalSubmitError and goalSubmitSuccess
NoMessage == "null"

\* the page opened at / with no hash
HomeLocation == [pathname |-> "/", hash |-> "#"]

\* the Greg page when it is not under study
GregIdle ==
  /\ loc = HomeLocation
  /\ expectedPassword = ""
  /\ gregPassword = ""
  /\ gregUnlocked = FALSE
  /\ gregGoals = <<>>
  /\ gregQueries = 0
  /\ gregQueriesInFlight = 0
  /\ updateTitle = <<>>
  /\ updateBody = <<>>
  /\ updateVideoFile = <<>>
  /\ gregActionLoading = FALSE
  /\ gregActionError = NoMessage
  /\ gregActionSuccess = NoMessage
  /\ uploadPending = <<>>
  /\ updateInsertPending = <<>>
  /\ uploadCalls = 0
  /\ updateInsertCalls = 0
  /\ publishes = 0
  /\ dbUpdates = <<>>
  /\ latestUpdate = <<>>

\* formatSupabaseDataError when it is not under study
FormatIdle ==
  /\ fmtErr = <<>>
  /\ fmtResult = NoMessage
  /\ fmtDone = FALSE

\* ScrollIndicator when it is not under study
ScrollIdle ==
  /\ sectionElements = <<>>
  /\ clientHeight = 1
  /\ scrollTop = 0
  /\ activeSection = 0
  /\ lastHandler = "none"

\* ScrollingNumber before it is rendered
ScrollingNumberIdle ==
  /\ snPhase = "new"
  /\ snValue = 0
  /\ snReduced = FALSE
  /\ snPositions = <<>>
  /\ snFirstRevealDone = FALSE
  /\ snTimeout = <<>>
  /\ snRaf = <<>>
  /\ snCleanup = FALSE
  /\ snChanges = 0
  /\ snNormalized = FALSE

\* the pumpkin scene before its timer has ticked: nothing retained
PumpkinSceneEmpty ==
  /\ pumpkins = <<>>
  /\ pumpkinNow = 0
  /\ pumpkinTicks = 0
  /\ pumpkinsExpired = {}
  /\ pumpkinsCut = {}

\* the pumpkin scene is not part of the run
PumpkinIdle ==
  /\ PumpkinSceneEmpty
  /\ pumpkinMax = 1
  /\ pumpkinLifetime = 1

\* the state of the goals page before App is mounted
GoalsPageIdle ==
  /\ appMounted = FALSE
  /\ loadPending = FALSE
  /\ loadResponse = <<>>
  /\ supabaseDataError = NoMessage
  /\ channelSubscribed = FALSE
  /\ realtimeQueue = <<>>

\* the goals part when it is not under study
GoalsIdle ==
  /\ supabaseUrl = Undefined
  /\ supabasePublishableKey = Undefined
  /\ supabaseAnonKey = Undefined
  /\ GoalsPageIdle
  /\ sbConfigured = FALSE
  /\ displayName = <<>>
  /\ goalTitle = <<>>
  /\ goalText = <<>>
  /\ goalSubmitLoading = FALSE
  /\ goalSubmitError = NoMessage
  /\ goalSubmitSuccess = NoMessage
  /\ confetti = FALSE
  /\ goals = <<>>
  /\ goalCount = 0
  /\ dbGoals = <<>>
  /\ pendingInsert = <<>>
  /\ insertResponse = <<>>
  /\ insertCalls = 0
  /\ submits = 0

\* ------------------------------------------------------------------------
\* Countdown to 9 PM Eastern (App.tsx) and its pressure (DramaticCountdown)
\* ------------------------------------------------------------------------
Hour == TicksPerHour
Day == 24 * Hour

\* America/New_York: EST is UTC-5, EDT is UTC-4; clocks go forward at
\* 2:00 EST (07:00 UTC) and back at 2:00 EDT (06:00 UTC)
EstOffsetHours == 5
EdtOffsetHours == 4
SpringForwardUtcHour == 7
FallBackUtcHour == 6

\* hour: 21 of the target, and the test p.hour < 21
NinePmHour == 21

\* windowMs = 24 * 60 * 60 * 1000
WindowHours == 24

DstRules == {"none", "spring", "fall"}
HourCycles == {"h23", "h24"}

\* the zone's offset from UTC at the instant u, in ticks (time zone database)
ZoneOffset(u) ==
  CASE dstRule = "none" -> 0 - EstOffsetHours * Hour
    [] dstRule = "spring" ->
         IF u < TransitionDay * Day + SpringForwardUtcHour * Hour
           THEN 0 - EstOffsetHours * Hour
           ELSE 0 - EdtOffsetHours * Hour
    [] dstRule = "fall" ->
         IF u < TransitionDay * Day + FallBackUtcHour * Hour
           THEN 0 - EdtOffsetHours * Hour
           ELSE 0 - EstOffsetHours * Hour

\* the zone's wall clock at the instant u: day, hour 0..23 and rest of hour
WallClock(u) ==
  LET local == u + ZoneOffset(u)
  IN [day |-> local \div Day, hour |-> (local % Day) \div Hour, minute |-> local % Hour]

\* Intl.DateTimeFormat('en-US', {..., hour12: false}).formatToParts(date):
\* an engine that resolves hour12: false to the h24 cycle prints the hour
\* after midnight as 24, one that resolves it to h23 prints 00
getZonedDateParts(u) ==
  LET w == WallClock(u)
  IN IF hourCycle = "h24" /\ w.hour = 0 THEN [w EXCEPT !.hour = 24] ELSE w

\* Date.UTC(year, month - 1, day, hour, minute, second)
DateUTC(p) == p.day * Day + p.hour * Hour + p.minute

\* addDaysToYmd(ymd, days): the calendar day `days` later
addDaysToYmd(day, days) == day + days

getTimeZoneOffsetMs(u) == DateUTC(getZonedDateParts(u)) - u

zonedTimeToUtc(parts) ==
  LET utcGuess == DateUTC(parts)
      offset1 == getTimeZoneOffsetMs(utcGuess)
      utc == utcGuess - offset1
      offset2 == getTimeZoneOffsetMs(utc)
  IN IF offset2 # offset1 THEN utcGuess - offset2 ELSE utc

getNextNinePmEasternUtc(now) ==
  LET p == getZonedDateParts(now)
      isBeforeNinePm == p.hour < NinePmHour
      ymd == addDaysToYmd(p.day, IF isBeforeNinePm THEN 0 ELSE 1)
  IN zonedTimeToUtc([day |-> ymd, hour |-> NinePmHour, minute |-> 0])

\* App: the values derived from countdownNowMs on every render
nextNinePmEasternUtc == getNextNinePmEasternUtc(countdownNowMs)
msUntilNinePmEastern == nextNinePmEasternUtc - countdownNowMs
isDeadlineReached == msUntilNinePmEastern <= 0

Max(a, b) == IF a >= b THEN a ELSE b
Min(a, b) == IF a <= b THEN a ELSE b

\* getCountdownParts(msRemaining).totalSeconds = Math.max(0, Math.floor(ms / 1000))
totalSeconds(msRemaining) == Max(0, msRemaining)

\* DramaticCountdown: pressure = Math.min(1, Math.max(0, 1 - msRemaining / windowMs)),
\* as the numerator of a fraction over windowMs
windowMs == WindowHours * Hour
pressure(msRemaining) == Min(windowMs, Max(0, windowMs - msRemaining))

\* window.setInterval(() => setCountdownNowMs(Date.now()), 1000)
CountdownTick ==
  /\ \E step \in 1 .. MaxStep :
       /\ countdownNowMs + step < MaxDays * Day
       /\ countdownNowMs' = countdownNowMs + step
  /\ UNCHANGED <<dstRule, hourCycle, zParts, zResult, zDone, cdOthers>>

\* the DateParts of the window: every day, every hour, every rest of hour
AllParts == [day : 0 .. MaxDays - 1, hour : 0 .. 23, minute : 0 .. Hour - 1]

\* zonedTimeToUtc(parts, 'America/New_York')
ZonedTimeToUtcCall ==
  /\ ~zDone
  /\ zResult' = zonedTimeToUtc(zParts)
  /\ zDone' = TRUE
  /\ UNCHANGED <<countdownNowMs, dstRule, hourCycle, zParts, cdOthers>>

\* useState(() => Date.now()): the page is opened at any instant of day 0
CountdownInit ==
  /\ countdownNowMs \in 0 .. Day - 1
  /\ dstRule \in DstRules
  /\ hourCycle \in HourCycles
  /\ zParts = [day |-> 0, hour |-> 0, minute |-> 0]
  /\ zResult = 0
  /\ zDone = FALSE
  /\ FireworksIdle
  /\ maxExplosions = 1
  /\ GoalsIdle
  /\ GregIdle
  /\ FormatIdle
  /\ ScrollIdle
  /\ ScrollingNumberIdle
  /\ PumpkinIdle

CountdownSpec == CountdownInit /\ [][CountdownTick]_vars

ZonedTimeInit ==
  /\ countdownNowMs = 0
  /\ dstRule \in DstRules
  /\ hourCycle \in HourCycles
  /\ zParts \in AllParts
  /\ zResult = 0
  /\ zDone = FALSE
  /\ FireworksIdle
  /\ maxExplosions = 1
  /\ GoalsIdle
  /\ GregIdle
  /\ FormatIdle
  /\ ScrollIdle
  /\ ScrollingNumberIdle
  /\ PumpkinIdle

ZonedTimeSpec == ZonedTimeInit /\ [][ZonedTimeToUtcCall]_vars


\* ------------------------------------------------------------------------
\* Location (App.tsx, useLocationSnapshot and isGregRoute)
\* ------------------------------------------------------------------------
\* the locations the page is opened at or moved to
Locations ==
  {HomeLocation,
   [pathname |-> "/gregory", hash |-> "#"],
   [pathname |-> "/greg/", hash |-> "#"],
   [pathname |-> "/", hash |-> "#/GREG"]}

\* /^\/greg\/?$/i.test(loc.pathname), on the pathnames of Locations
GregPathnames == {"/greg/"}

\* (loc.hash || '#').toLowerCase().startsWith('#/greg'), on the hashes of Locations
GregHashes == {"#/GREG"}

isGregRoute == loc.pathname \in GregPathnames \/ loc.hash \in GregHashes

\* ------------------------------------------------------------------------
\* The Supabase client (createClient) and formatSupabaseDataError
\* ------------------------------------------------------------------------
\* what an environment variable can hold: undefined, '' or a value
EnvValues == {Undefined, Some(""), Some("set")}

\* !x is false for an optional string
Truthy(opt) == opt # Undefined /\ ValueOf(opt) # ""

\* a ?? b
Nullish(a, b) == IF a = Undefined THEN b ELSE a

\* const supabaseKey = supabasePublishableKey ?? supabaseAnonKey
supabaseKey == Nullish(supabasePublishableKey, supabaseAnonKey)

\* if (!supabaseUrl) return null: the key is not looked at
createClientUrlOnly(url, key) == Truthy(url)

\* createClient(): TRUE for a client, FALSE for null
createClient(url, key) == Truthy(url) /\ Truthy(key)

Upper ==
  <<"A", "B", "C", "D", "E", "F", "G", "H", "I", "J", "K", "L", "M",
    "N", "O", "P", "Q", "R", "S", "T", "U", "V", "W", "X", "Y", "Z">>
Lower ==
  <<"a", "b", "c", "d", "e", "f", "g", "h", "i", "j", "k", "l", "m",
    "n", "o", "p", "q", "r", "s", "t", "u", "v", "w", "x", "y", "z">>

ToLowerCaseChar(c) ==
  IF \E k \in 1 .. Len(Upper) : Upper[k] = c
    THEN Lower[CHOOSE k \in 1 .. Len(Upper) : Upper[k] = c]
    ELSE c

\* the message used as it is, without .toLowerCase()
KeepCase(str) == str

\* String.prototype.toLowerCase()
ToLowerCase(str) == [i \in 1 .. Len(str) |-> ToLowerCaseChar(str[i])]

\* String.prototype.includes(needle)
Includes(str, needle) ==
  \E i \in 1 .. Len(str) - Len(needle) + 1 :
    SubSeq(str, i, i + Len(needle) - 1) = needle

\* 'not found', 'relation', 'does not exist'
NotFound == <<"n", "o", "t", " ", "f", "o", "u", "n", "d">>
Relation == <<"r", "e", "l", "a", "t", "i", "o", "n">>
DoesNotExist == <<"d", "o", "e", "s", " ", "n", "o", "t", " ", "e", "x", "i", "s", "t">>

\* status === 404, code === '42P01'
NotFoundStatus == 404
UndefinedTableCode == "42P01"

\* the messages the handlers set
NotConfiguredMessage == "Supabase is not configured. Missing env vars."
ValidationMessage == "Please fill out your name, a short title, and your goal."
SuccessMessage == "Locked in. Greg will read it aloud in Denver."
SomethingWrongMessage == "Something went wrong. Please try again."
TableNotFoundMessage == "Supabase returned table not found."
SupabaseErrorMessage == "Supabase error"

\* formatSupabaseDataError(err): err is <<>> (null) or <<e>>, e an error with
\* an optional numeric status, an optional code and an optional message;
\* the generic message stands for 'Supabase error (status): message'
formatSupabaseDataError(err) ==
  IF err = <<>>
    THEN NoMessage
    ELSE LET e == err[1]
             status == e.status
             code == IF e.code = Undefined THEN "" ELSE ValueOf(e.code)
             msg == ToLowerCase(IF e.message = Undefined THEN <<>> ELSE ValueOf(e.message))
             isMissingRelation ==
               \/ status = Some(NotFoundStatus)
               \/ code = UndefinedTableCode
               \/ Includes(msg, NotFound)
               \/ Includes(msg, Relation)
               \/ Includes(msg, DoesNotExist)
         IN IF isMissingRelation THEN TableNotFoundMessage ELSE SupabaseErrorMessage

\* the phrases an error message is built around, in several spellings
MessagePhrases ==
  {<<>>,
   <<"N", "o", "t", " ", "F", "o", "u", "n", "d">>,
   <<"R", "E", "L", "A", "T", "I", "O", "N">>,
   <<"D", "o", "e", "s", " ", "n", "o", "t", " ", "e", "x", "i", "s", "t">>,
   <<"n", "o", "t", "f", "o", "u", "n", "d">>,
   <<"d", "u", "p">>}

\* the errors formatSupabaseDataError is called with: null, or an error with
\* or without a status, a code and a message
ErrorInputs ==
  LET Pads == UNION {[1 .. n -> {"x"}] : n \in 0 .. MaxPad}
      Messages == {Undefined} \cup
                  {Some(a \o phrase \o b) : a \in Pads, phrase \in MessagePhrases, b \in Pads}
      Statuses == {Undefined, Some(0), Some(NotFoundStatus), Some(500)}
      Codes == {Undefined, Some(""), Some(UndefinedTableCode), Some("23505")}
  IN {<<>>} \cup {<<e>> : e \in [status : Statuses, code : Codes, message : Messages]}

\* one call formatSupabaseDataError(fmtErr)
FormatCall ==
  /\ ~fmtDone
  /\ fmtResult' = formatSupabaseDataError(fmtErr)
  /\ fmtDone' = TRUE
  /\ UNCHANGED <<fmtErr, fmtOthers>>

FormatInit ==
  /\ fmtErr \in ErrorInputs
  /\ fmtResult = NoMessage
  /\ fmtDone = FALSE
  /\ FireworksIdle
  /\ maxExplosions = 1
  /\ CountdownIdle
  /\ GoalsIdle
  /\ GregIdle
  /\ ScrollIdle
  /\ ScrollingNumberIdle
  /\ PumpkinIdle

FormatSpec == FormatInit /\ [][FormatCall]_vars

\* a ?? b on messages
OrElse(a, b) == IF a = NoMessage THEN b ELSE a

\* the errors a call of this page comes back with: relation missing,
\* duplicate key, and the request that could not be sent or answered
InsertErrors ==
  {[status |-> Undefined, code |-> Some(UndefinedTableCode),
    message |-> Some(<<"r", "e", "l", "a", "t", "i", "o", "n", " ", "g">>)],
   [status |-> Undefined, code |-> Some("23505"), message |-> Some(<<"d", "u", "p">>)],
   [status |-> Undefined, code |-> Some(""),
    message |-> Some(<<"F", "a", "i", "l", "e", "d", " ", "t", "o", " ", "f", "e", "t", "c", "h">>)]}

\* ------------------------------------------------------------------------
\* The goals page (App.tsx: handleGoalSubmit, load, realtime subscription)
\* ------------------------------------------------------------------------
\* what the user can type into a field: nothing, a blank, a word with a blank
FieldValues == {<<>>, <<" ">>, <<"a", " ">>}

IsWhitespace(c) == c = " "

RECURSIVE TrimStart(_)
TrimStart(str) ==
  IF str # <<>> /\ IsWhitespace(Head(str)) THEN TrimStart(Tail(str)) ELSE str

RECURSIVE TrimEnd(_)
TrimEnd(str) ==
  IF str # <<>> /\ IsWhitespace(str[Len(str)])
    THEN TrimEnd(SubSeq(str, 1, Len(str) - 1))
    ELSE str

\* the field used as typed, without String.prototype.trim()
Untrimmed(str) == str

\* String.prototype.trim()
Trim(str) == TrimEnd(TrimStart(str))

\* .select('id,display_name,title,created_at'): the public projection of a row
PublicRow(row) ==
  [id |-> row.id, display_name |-> row.display_name,
   title |-> row.title, created_at |-> row.created_at]

\* .order('created_at', { ascending: false }).limit(n) with the public
\* projection, on the table kept in insertion order
SelectPublic(db, n) ==
  [i \in 1 .. Min(n, Len(db)) |-> PublicRow(db[Len(db) + 1 - i])]

\* [...prev, data].slice(0, 50): the new row put last
AppendRow(row, prev) == SubSeq(Append(prev, row), 1, Min(GoalsLimit, Len(prev) + 1))

\* [data, ...prev] without .slice(0, 50)
PrependRowUncut(row, prev) == <<row>> \o prev

\* [data, ...prev].slice(0, 50)
PrependRow(row, prev) == SubSeq(<<row>> \o prev, 1, Min(GoalsLimit, Len(prev) + 1))

\* the mount effects of App: load() and the channel subscription, both
\* skipped when supabaseRef.current is null
AppMount ==
  /\ ~appMounted
  /\ appMounted' = TRUE
  /\ loadPending' = sbConfigured
  /\ channelSubscribed' = sbConfigured
  /\ UNCHANGED <<envVars, formVars, statusVars, listVars, netVars, submits,
                 loadResponse, supabaseDataError, realtimeQueue, goalOthers>>

\* onChange={(e) => setDisplayName / setGoalTitle / setGoalText (e.target.value)}
TypeField ==
  /\ appMounted
  /\ ~isGregRoute
  /\ \E value \in FieldValues :
       \/ displayName' = value /\ UNCHANGED <<goalTitle, goalText>>
       \/ goalTitle' = value /\ UNCHANGED <<displayName, goalText>>
       \/ goalText' = value /\ UNCHANGED <<displayName, goalTitle>>
  /\ UNCHANGED <<envVars, statusVars, listVars, netVars, submits, loadVars, rtVars,
                 goalOthers>>

\* handleGoalSubmit up to its await
handleGoalSubmit ==
  LET dn == Trim(displayName)
      title == Trim(goalTitle)
      text == Trim(goalText)
  IN /\ submits' = submits + 1
     /\ IF ~sbConfigured
          THEN /\ goalSubmitError' = NotConfiguredMessage
               /\ UNCHANGED <<goalSubmitLoading, goalSubmitSuccess, pendingInsert, insertCalls>>
          ELSE IF dn = <<>> \/ title = <<>> \/ text = <<>>
            THEN /\ goalSubmitError' = ValidationMessage
                 /\ goalSubmitSuccess' = NoMessage
                 /\ UNCHANGED <<goalSubmitLoading, pendingInsert, insertCalls>>
            ELSE /\ goalSubmitError' = NoMessage
                 /\ goalSubmitSuccess' = NoMessage
                 /\ goalSubmitLoading' = TRUE
                 /\ pendingInsert' = <<[display_name |-> dn, title |-> title, goal_text |-> text]>>
                 /\ insertCalls' = insertCalls + 1
     /\ UNCHANGED <<envVars, formVars, confetti, listVars, dbGoals, insertResponse,
                    loadVars, rtVars, goalOthers>>

\* disabled={goalSubmitLoading || !supabaseRef.current} of the submit button
GoalSubmitDisabled == goalSubmitLoading \/ ~sbConfigured

\* the submit event of the form: the form is rendered, the button is enabled
\* (disabled={goalSubmitLoading || !supabaseRef.current}) and no required
\* field is empty
GoalFormSubmit ==
  /\ appMounted
  /\ ~isGregRoute
  /\ submits < MaxSubmits
  /\ ~GoalSubmitDisabled
  /\ displayName # <<>> /\ goalTitle # <<>> /\ goalText # <<>>
  /\ handleGoalSubmit

\* the row the backend stores for an insert: id and created_at are set by
\* the table defaults
StoredRow(fields, db) ==
  [id |-> Len(db) + 1,
   display_name |-> fields.display_name,
   title |-> fields.title,
   goal_text |-> fields.goal_text,
   created_at |-> Len(db) + 1]

\* the INSERT notification of a stored row: payload.new is the whole row
Notify(row, queue) == IF channelSubscribed THEN Append(queue, row) ELSE queue

\* the backend runs the insert: it adds the row, or fails with an error
BackendInsert ==
  /\ pendingInsert # <<>>
  /\ \/ LET row == StoredRow(pendingInsert[1], dbGoals)
        IN /\ dbGoals' = Append(dbGoals, row)
           /\ insertResponse' = <<[error |-> <<>>, data |-> <<PublicRow(row)>>]>>
           /\ realtimeQueue' = Notify(row, realtimeQueue)
     \/ \E err \in InsertErrors :
          /\ insertResponse' = <<[error |-> <<err>>, data |-> <<>>]>>
          /\ UNCHANGED <<dbGoals, realtimeQueue>>
  /\ pendingInsert' = <<>>
  /\ UNCHANGED <<envVars, formVars, statusVars, listVars, insertCalls, submits,
                 loadVars, channelSubscribed, goalOthers>>

\* handleGoalSubmit after its await: the response is applied
GoalSubmitResolve ==
  /\ insertResponse # <<>>
  /\ LET error == insertResponse[1].error
         data == insertResponse[1].data
     IN IF error # <<>>
          THEN /\ goalSubmitError' =
                    OrElse(formatSupabaseDataError(error), SomethingWrongMessage)
               /\ UNCHANGED <<goalSubmitSuccess, confetti, listVars, formVars>>
          ELSE IF data # <<>>
            THEN /\ goalSubmitSuccess' = SuccessMessage
                 /\ confetti' = TRUE
                 /\ goals' = PrependRow(data[1], goals)
                 /\ goalCount' = goalCount + 1
                 /\ displayName' = <<>>
                 /\ goalTitle' = <<>>
                 /\ goalText' = <<>>
                 /\ UNCHANGED goalSubmitError
            ELSE UNCHANGED <<goalSubmitError, goalSubmitSuccess, confetti, listVars, formVars>>
  /\ goalSubmitLoading' = FALSE
  /\ insertResponse' = <<>>
  /\ UNCHANGED <<envVars, dbGoals, pendingInsert, insertCalls, submits, loadVars, rtVars,
                 goalOthers>>

\* the timeout fires and leaves the flag as it is
ConfettiTimeoutNoReset == confetti /\ UNCHANGED vars

\* window.setTimeout(() => setConfetti(false), 2200)
ConfettiTimeout ==
  /\ confetti
  /\ confetti' = FALSE
  /\ UNCHANGED <<envVars, formVars, goalSubmitLoading, goalSubmitError,
                 goalSubmitSuccess, listVars, netVars, submits, loadVars, rtVars,
                 goalOthers>>

\* another guest's page inserts a goal into the same table
OtherClientInsert ==
  /\ sbConfigured
  /\ Len(dbGoals) < MaxRows
  /\ LET row == StoredRow([display_name |-> <<"b">>, title |-> <<"t">>,
                           goal_text |-> <<"s">>], dbGoals)
     IN /\ dbGoals' = Append(dbGoals, row)
        /\ realtimeQueue' = Notify(row, realtimeQueue)
  /\ UNCHANGED <<envVars, formVars, statusVars, listVars, pendingInsert, insertResponse,
                 insertCalls, submits, loadVars, channelSubscribed, goalOthers>>

\* the backend answers the queries of load(): the newest rows in the public
\* projection, the latest update and the exact count, or an error
BackendLoad ==
  /\ loadPending
  /\ loadPending' = FALSE
  /\ \/ loadResponse' =
          <<[error |-> <<>>,
             goalsData |-> <<SelectPublic(dbGoals, GoalsLimit)>>,
             updateData |-> IF dbUpdates = <<>> THEN <<>> ELSE <<dbUpdates[Len(dbUpdates)]>>,
             goalsExactCount |-> Some(Len(dbGoals))]>>
     \/ \E err \in InsertErrors :
          loadResponse' =
            <<[error |-> <<err>>, goalsData |-> <<>>, updateData |-> <<>>,
               goalsExactCount |-> Undefined]>>
  /\ UNCHANGED <<envVars, formVars, statusVars, listVars, netVars, submits, appMounted,
                 supabaseDataError, rtVars, goalOthers>>

\* load() after its await
LoadResolve ==
  /\ loadResponse # <<>>
  /\ LET r == loadResponse[1]
         rows == IF r.goalsData = <<>> THEN <<>> ELSE r.goalsData[1]
     IN /\ supabaseDataError' = formatSupabaseDataError(r.error)
        /\ goals' = rows
        /\ latestUpdate' = r.updateData
        /\ goalCount' =
             (IF r.goalsExactCount # Undefined THEN ValueOf(r.goalsExactCount) ELSE Len(rows))
  /\ loadResponse' = <<>>
  /\ UNCHANGED <<envVars, formVars, statusVars, netVars, submits, appMounted, loadPending,
                 rtVars, appOthers, gregButLatest>>

\* the postgres_changes INSERT callback of the channel
RealtimeInsert ==
  /\ channelSubscribed
  /\ realtimeQueue # <<>>
  /\ LET row == Head(realtimeQueue)
     IN goals' = IF \E i \in 1 .. Len(goals) : goals[i].id = row.id
                   THEN goals
                   ELSE PrependRow(row, goals)
  /\ goalCount' = goalCount + 1
  /\ realtimeQueue' = Tail(realtimeQueue)
  /\ UNCHANGED <<envVars, formVars, statusVars, netVars, submits, loadVars,
                 channelSubscribed, goalOthers>>

\* App after construction, opened at /: createClient() has returned a client
\* or null, no effect has run yet
GoalsInit ==
  /\ supabaseUrl \in EnvValues
  /\ supabasePublishableKey \in EnvValues
  /\ supabaseAnonKey \in EnvValues
  /\ sbConfigured = createClient(supabaseUrl, supabaseKey)
  /\ GoalsPageIdle
  /\ displayName = <<>>
  /\ goalTitle = <<>>
  /\ goalText = <<>>
  /\ goalSubmitLoading = FALSE
  /\ goalSubmitError = NoMessage
  /\ goalSubmitSuccess = NoMessage
  /\ confetti = FALSE
  /\ goals = <<>>
  /\ goalCount = 0
  /\ dbGoals = <<>>
  /\ pendingInsert = <<>>
  /\ insertResponse = <<>>
  /\ insertCalls = 0
  /\ submits = 0
  /\ FireworksIdle
  /\ maxExplosions = 1
  /\ CountdownIdle
  /\ GregIdle
  /\ FormatIdle
  /\ ScrollIdle
  /\ ScrollingNumberIdle
  /\ PumpkinIdle

\* the page of one guest, from its construction on; no other guest writes
GoalsNext ==
  \/ AppMount
  \/ TypeField
  \/ GoalFormSubmit
  \/ BackendInsert
  \/ GoalSubmitResolve
  \/ ConfettiTimeout
  \/ BackendLoad
  \/ LoadResolve
  \/ RealtimeInsert

GoalsSpec == GoalsInit /\ [][GoalsNext]_vars

\* the goals wall: the page is configured and mounted (load() is sent,
\* the channel is subscribed) and the guest has filled in the form
WallInit ==
  /\ supabaseUrl = Some("set")
  /\ supabasePublishableKey = Some("set")
  /\ supabaseAnonKey = Undefined
  /\ sbConfigured = createClient(supabaseUrl, supabaseKey)
  /\ appMounted = TRUE
  /\ loadPending = TRUE
  /\ loadResponse = <<>>
  /\ supabaseDataError = NoMessage
  /\ channelSubscribed = TRUE
  /\ realtimeQueue = <<>>
  /\ displayName = <<"a", " ">>
  /\ goalTitle = <<"a", " ">>
  /\ goalText = <<"a", " ">>
  /\ goalSubmitLoading = FALSE
  /\ goalSubmitError = NoMessage
  /\ goalSubmitSuccess = NoMessage
  /\ confetti = FALSE
  /\ goals = <<>>
  /\ goalCount = 0
  /\ dbGoals = <<>>
  /\ pendingInsert = <<>>
  /\ insertResponse = <<>>
  /\ insertCalls = 0
  /\ submits = 0
  /\ FireworksIdle
  /\ maxExplosions = 1
  /\ CountdownIdle
  /\ GregIdle
  /\ FormatIdle
  /\ ScrollIdle
  /\ ScrollingNumberIdle
  /\ PumpkinIdle

\* this guest's submissions, the other guests' inserts, load() and the
\* realtime notifications, in every order
WallNext ==
  \/ GoalFormSubmit
  \/ BackendInsert
  \/ GoalSubmitResolve
  \/ ConfettiTimeout
  \/ OtherClientInsert
  \/ BackendLoad
  \/ LoadResolve
  \/ RealtimeInsert

WallSpec == WallInit /\ [][WallNext]_vars


\* ------------------------------------------------------------------------
\* The Greg page (App.tsx: password gate, loadGregGoals, handlePublishGregUpdate)
\* ------------------------------------------------------------------------
\* .limit(200) of loadGregGoals
GregGoalsLimit == 200

\* the password form is rendered
GateRendered == isGregRoute /\ sbConfigured /\ expectedPassword # "" /\ ~gregUnlocked

\* the panel with the full-text goals and the publish form is rendered
PanelRendered == isGregRoute /\ sbConfigured /\ expectedPassword # "" /\ gregUnlocked

\* the guard of the effect, without the test of gregUnlocked
ShouldLoadOnRoute(route, unlocked) == route

\* the effect loads unless (!isGregRoute || !gregUnlocked)
ShouldLoad(route, unlocked) == route /\ unlocked

\* loadGregGoals() up to its await: returns at once when there is no client
loadGregGoals ==
  IF sbConfigured
    THEN /\ gregQueries' = gregQueries + 1
         /\ gregQueriesInFlight' = gregQueriesInFlight + 1
    ELSE UNCHANGED <<gregQueries, gregQueriesInFlight>>

\* the effect with the dependencies [isGregRoute, gregUnlocked], run after a
\* render in which one of them has changed
GregEffect ==
  IF <<isGregRoute, gregUnlocked>>' # <<isGregRoute, gregUnlocked>>
     /\ ShouldLoad(isGregRoute', gregUnlocked')
    THEN loadGregGoals
    ELSE UNCHANGED <<gregQueries, gregQueriesInFlight>>

\* popstate, hashchange, pushState or replaceState moves the page
Navigate ==
  /\ appMounted
  /\ gregQueries < MaxQueries
  /\ loc' \in Locations \ {loc}
  /\ UNCHANGED gateVars
  /\ GregEffect
  /\ UNCHANGED <<gregGoals, publishFormVars, publishStatusVars, publishNetVars,
                 latestUpdate, gregOthers>>

\* onChange={(e) => setGregPassword(e.target.value)}
TypePassword ==
  /\ GateRendered
  /\ gregPassword' \in {"", "pw", "no"} \ {gregPassword}
  /\ UNCHANGED <<loc, expectedPassword, gregUnlocked, gregQueryVars, publishFormVars,
                 publishStatusVars, publishNetVars, latestUpdate, gregOthers>>

\* handleGregUnlock, and the effect that follows the render
handleGregUnlock ==
  /\ IF expectedPassword # "" /\ gregPassword = expectedPassword
       THEN /\ gregUnlocked' = TRUE
            /\ gregPassword' = ""
       ELSE UNCHANGED <<gregUnlocked, gregPassword>>
  /\ UNCHANGED loc
  /\ GregEffect
  /\ UNCHANGED <<expectedPassword, gregGoals, publishFormVars, publishStatusVars,
                 publishNetVars, latestUpdate, gregOthers>>

\* the submit event of the password form
GregUnlockSubmit ==
  /\ GateRendered
  /\ gregQueries < MaxQueries
  /\ handleGregUnlock

\* the Refresh button: onClick={() => void loadGregGoals()}
Refresh ==
  /\ PanelRendered
  /\ gregQueries < MaxQueries
  /\ loadGregGoals
  /\ UNCHANGED <<loc, gateVars, gregGoals, publishFormVars, publishStatusVars,
                 publishNetVars, latestUpdate, gregOthers>>

\* the full-text query is answered and loadGregGoals() continues after its
\* await: the newest rows with goal_text, or an error and no data
GregGoalsResolve ==
  /\ gregQueriesInFlight > 0
  /\ gregQueriesInFlight' = gregQueriesInFlight - 1
  /\ \/ /\ gregGoals' = [i \in 1 .. Min(GregGoalsLimit, Len(dbGoals)) |->
                           dbGoals[Len(dbGoals) + 1 - i]]
        /\ UNCHANGED gregActionError
     \/ \E err \in InsertErrors :
          /\ gregActionError' = formatSupabaseDataError(<<err>>)
          /\ gregGoals' = <<>>
  /\ UNCHANGED <<loc, gateVars, gregQueries, publishFormVars, gregActionLoading,
                 gregActionSuccess, publishNetVars, latestUpdate, gregOthers>>

\* onChange of the title and message inputs of the publish form
TypeUpdateField ==
  /\ PanelRendered
  /\ \E value \in {<<>>, <<" ">>, <<"a">>} :
       \/ updateTitle' = value /\ value # updateTitle /\ UNCHANGED updateBody
       \/ updateBody' = value /\ value # updateBody /\ UNCHANGED updateTitle
  /\ UNCHANGED <<loc, gateVars, gregQueryVars, updateVideoFile, publishStatusVars,
                 publishNetVars, latestUpdate, gregOthers>>

\* onChange={(e) => setUpdateVideoFile(e.target.files?.[0] ?? null)}
ChooseFile ==
  /\ PanelRendered
  /\ updateVideoFile' \in {<<>>, <<"v.mp4">>} \ {updateVideoFile}
  /\ UNCHANGED <<loc, gateVars, gregQueryVars, updateTitle, updateBody, publishStatusVars,
                 publishNetVars, latestUpdate, gregOthers>>

\* handlePublishGregUpdate up to its first await; videoPath is built from the
\* time of the call and the file name
handlePublishGregUpdate ==
  LET t == Trim(updateTitle)
      b == Trim(updateBody)
  IN /\ publishes' = publishes + 1
     /\ IF ~sbConfigured
          THEN /\ gregActionError' = NotConfiguredMessage
               /\ UNCHANGED <<gregActionSuccess, gregActionLoading, uploadPending, uploadCalls>>
          ELSE /\ gregActionSuccess' = NoMessage
               /\ IF t = <<>> \/ b = <<>>
                    THEN /\ gregActionError' = "Please enter a title and a message."
                         /\ UNCHANGED <<gregActionLoading, uploadPending, uploadCalls>>
                    ELSE IF updateVideoFile = <<>>
                      THEN /\ gregActionError' = "Please choose a video file."
                           /\ UNCHANGED <<gregActionLoading, uploadPending, uploadCalls>>
                      ELSE /\ gregActionError' = NoMessage
                           /\ gregActionLoading' = TRUE
                           /\ uploadPending' =
                                <<[title |-> t, body |-> b,
                                   video_path |-> [time |-> publishes + 1,
                                                   name |-> updateVideoFile[1]]]>>
                           /\ uploadCalls' = uploadCalls + 1
     /\ UNCHANGED <<loc, gateVars, gregQueryVars, publishFormVars, updateInsertPending,
                    updateInsertCalls, dbUpdates, latestUpdate, gregOthers>>

\* the submit event of the publish form: the panel is rendered and the
\* button is enabled (disabled={gregActionLoading})
PublishFormSubmit ==
  /\ PanelRendered
  /\ ~gregActionLoading
  /\ publishes < MaxPublishes
  /\ handlePublishGregUpdate

\* if (uploadRes.error), with no message set
PublishUploadFailedSilently ==
  /\ gregActionError' = NoMessage
  /\ gregActionLoading' = FALSE

\* if (uploadRes.error) { setGregActionError(...); setGregActionLoading(false); return }
PublishUploadFailed ==
  /\ gregActionError' =
       "Video upload failed. Double check the bucket name and that it allows uploads."
  /\ gregActionLoading' = FALSE

\* the upload is answered and handlePublishGregUpdate continues: it stops on
\* an upload error, and sends the insert into greg_updates otherwise
PublishUploadResolve ==
  /\ uploadPending # <<>>
  /\ uploadPending' = <<>>
  /\ \/ /\ PublishUploadFailed
        /\ UNCHANGED <<updateInsertPending, updateInsertCalls>>
     \/ /\ updateInsertPending' = uploadPending
        /\ updateInsertCalls' = updateInsertCalls + 1
        /\ UNCHANGED <<gregActionError, gregActionLoading>>
  /\ UNCHANGED <<loc, gateVars, gregQueryVars, publishFormVars, gregActionSuccess,
                 uploadCalls, publishes, dbUpdates, latestUpdate, gregOthers>>

\* the insert is answered and handlePublishGregUpdate continues to its end:
\* the stored row becomes latestUpdate and the form is cleared, or the error
\* is shown; finally the loading flag is reset
PublishInsertResolve ==
  /\ updateInsertPending # <<>>
  /\ updateInsertPending' = <<>>
  /\ \/ LET f == updateInsertPending[1]
            row == [id |-> Len(dbUpdates) + 1, title |-> f.title, body |-> f.body,
                    video_path |-> f.video_path, created_at |-> Len(dbUpdates) + 1]
        IN /\ dbUpdates' = Append(dbUpdates, row)
           /\ gregActionSuccess' = "Published."
           /\ latestUpdate' = <<row>>
           /\ updateTitle' = <<>>
           /\ updateBody' = <<>>
           /\ updateVideoFile' = <<>>
           /\ UNCHANGED gregActionError
     \/ \E err \in InsertErrors :
          /\ gregActionError' =
               OrElse(formatSupabaseDataError(<<err>>), "Update publish failed.")
          /\ UNCHANGED <<gregActionSuccess, latestUpdate, publishFormVars, dbUpdates>>
  /\ gregActionLoading' = FALSE
  /\ UNCHANGED <<loc, gateVars, gregQueryVars, uploadPending, uploadCalls,
                 updateInsertCalls, publishes, gregOthers>>

\* App at any location, with or without a client and a configured password;
\* when there is a client the channel is subscribed and load() has been
\* answered
GregInit ==
  /\ supabaseUrl \in {Undefined, Some("set")}
  /\ supabasePublishableKey = Some("set")
  /\ supabaseAnonKey = Undefined
  /\ sbConfigured = createClient(supabaseUrl, supabaseKey)
  /\ appMounted = TRUE
  /\ loadPending = FALSE
  /\ loadResponse = <<>>
  /\ supabaseDataError = NoMessage
  /\ channelSubscribed = sbConfigured
  /\ realtimeQueue = <<>>
  /\ displayName = <<>>
  /\ goalTitle = <<>>
  /\ goalText = <<>>
  /\ goalSubmitLoading = FALSE
  /\ goalSubmitError = NoMessage
  /\ goalSubmitSuccess = NoMessage
  /\ confetti = FALSE
  /\ dbGoals \in {<<>>,
                  <<StoredRow([display_name |-> <<"b">>, title |-> <<"t">>,
                               goal_text |-> <<"s">>], <<>>)>>}
  /\ goals = (IF sbConfigured THEN SelectPublic(dbGoals, GoalsLimit) ELSE <<>>)
  /\ goalCount = (IF sbConfigured THEN Len(dbGoals) ELSE 0)
  /\ pendingInsert = <<>>
  /\ insertResponse = <<>>
  /\ insertCalls = 0
  /\ submits = 0
  /\ loc \in Locations
  /\ expectedPassword \in {"", "pw"}
  /\ gregPassword = ""
  /\ gregUnlocked = FALSE
  /\ gregGoals = <<>>
  /\ gregQueries = 0
  /\ gregQueriesInFlight = 0
  /\ updateTitle = <<>>
  /\ updateBody = <<>>
  /\ updateVideoFile = <<>>
  /\ gregActionLoading = FALSE
  /\ gregActionError = NoMessage
  /\ gregActionSuccess = NoMessage
  /\ uploadPending = <<>>
  /\ updateInsertPending = <<>>
  /\ uploadCalls = 0
  /\ updateInsertCalls = 0
  /\ publishes = 0
  /\ dbUpdates = <<>>
  /\ latestUpdate = <<>>
  /\ FireworksIdle
  /\ maxExplosions = 1
  /\ CountdownIdle
  /\ FormatIdle
  /\ ScrollIdle
  /\ ScrollingNumberIdle
  /\ PumpkinIdle

GregNext ==
  \/ Navigate
  \/ TypePassword
  \/ GregUnlockSubmit
  \/ Refresh
  \/ GregGoalsResolve
  \/ TypeUpdateField
  \/ ChooseFile
  \/ PublishFormSubmit
  \/ PublishUploadResolve
  \/ PublishInsertResolve

GregSpec == GregInit /\ [][GregNext]_vars

\* the two forms in use: the goal form on the page at /, the publish form
\* on the unlocked Greg page; the fields hold what the user has typed and
\* load() has been answered
FormsInit ==
  /\ supabaseUrl = Some("set")
  /\ supabasePublishableKey = Some("set")
  /\ supabaseAnonKey = Undefined
  /\ sbConfigured = createClient(supabaseUrl, supabaseKey)
  /\ appMounted = TRUE
  /\ loadPending = FALSE
  /\ loadResponse = <<>>
  /\ supabaseDataError = NoMessage
  /\ channelSubscribed = TRUE
  /\ realtimeQueue = <<>>
  /\ loc \in {HomeLocation, [pathname |-> "/greg/", hash |-> "#"]}
  /\ displayName \in (IF isGregRoute THEN {<<>>} ELSE {<<" ">>, <<"a">>})
  /\ goalTitle \in (IF isGregRoute THEN {<<>>} ELSE {<<"a">>})
  /\ goalText \in (IF isGregRoute THEN {<<>>} ELSE {<<"a", " ">>})
  /\ goalSubmitLoading = FALSE
  /\ goalSubmitError = NoMessage
  /\ goalSubmitSuccess = NoMessage
  /\ confetti = FALSE
  /\ goals = <<>>
  /\ goalCount = 0
  /\ dbGoals = <<>>
  /\ pendingInsert = <<>>
  /\ insertResponse = <<>>
  /\ insertCalls = 0
  /\ submits = 0
  /\ expectedPassword = "pw"
  /\ gregPassword = ""
  /\ gregUnlocked = isGregRoute
  /\ gregGoals = <<>>
  /\ gregQueries = (IF isGregRoute THEN 1 ELSE 0)
  /\ gregQueriesInFlight = gregQueries
  /\ updateTitle \in (IF isGregRoute THEN {<<>>, <<"a">>} ELSE {<<>>})
  /\ updateBody \in (IF isGregRoute THEN {<<" ">>, <<"a">>} ELSE {<<>>})
  /\ updateVideoFile \in (IF isGregRoute THEN {<<>>, <<"v.mp4">>} ELSE {<<>>})
  /\ gregActionLoading = FALSE
  /\ gregActionError = NoMessage
  /\ gregActionSuccess = NoMessage
  /\ uploadPending = <<>>
  /\ updateInsertPending = <<>>
  /\ uploadCalls = 0
  /\ updateInsertCalls = 0
  /\ publishes = 0
  /\ dbUpdates = <<>>
  /\ latestUpdate = <<>>
  /\ FireworksIdle
  /\ maxExplosions = 1
  /\ CountdownIdle
  /\ FormatIdle
  /\ ScrollIdle
  /\ ScrollingNumberIdle
  /\ PumpkinIdle

FormsNext ==
  \/ TypeField
  \/ TypeUpdateField
  \/ ChooseFile
  \/ GoalFormSubmit
  \/ BackendInsert
  \/ GoalSubmitResolve
  \/ ConfettiTimeout
  \/ RealtimeInsert
  \/ GregGoalsResolve
  \/ PublishFormSubmit
  \/ PublishUploadResolve
  \/ PublishInsertResolve

FormsSpec == FormsInit /\ [][FormsNext]_vars

\* the two forms in use, with the timer of the confetti effect: a timeout
\* that is set and not cleared fires
ConfettiSpec == FormsSpec /\ WF_vars(ConfettiTimeout)

\* ------------------------------------------------------------------------
\* ShaderFireworks
\* ------------------------------------------------------------------------

\* an optional texture key that was not given
Absent == "absent"

\* keys of the textures memo
TextureKeys == {"soft", "ring", "spark", "streak"}

\* FireworkSpawnOptions, restricted to the options that decide the list
SpawnOptions ==
  [duration : {Undefined} \cup {Some(d) : d \in 1 .. MaxDuration}, texture : {Absent} \cup TextureKeys]

\* a uniform value num/den, kept exact as a pair <<num, den>>
Zero == <<0, 1>>
One == <<1, 1>>
FracLeq(a, b) == a[1] * b[2] <= b[1] * a[2]
FracEq(a, b) == a[1] * b[2] = b[1] * a[2]

\* const t = ex.age / ex.duration, not clamped
ProgressUnclamped(age, duration) == <<age, duration>>

\* const t = Math.min(1, ex.age / ex.duration)
Progress(age, duration) ==
  IF age >= duration THEN One ELSE <<age, duration>>

\* options?.duration ?? 2.6
DurationOf(options) ==
  IF options.duration = Undefined THEN DefaultDuration ELSE ValueOf(options.duration)

\* options?.texture ?? 'soft'
TexKeyOf(options) ==
  IF options.texture = Absent THEN "soft" ELSE options.texture

Range(s) == {s[i] : i \in 1 .. Len(s)}

\* if (active.length > maxExplosions): off by one, lets the list grow past the cap
AtCapacityOffByOne(list, cap) == Len(list) > cap

\* if (active.length >= maxExplosions)
AtCapacity(list, cap) == Len(list) >= cap

\* active.pop(): evicts the newest entry instead of the oldest
EvictNewest(st) ==
  LET old == st.active[Len(st.active)] IN
  [active |-> SubSeq(st.active, 1, Len(st.active) - 1),
   group |-> st.group \ {old},
   disposed |-> st.disposed \cup {old}]

\* const old = active.shift(); if (old) { group.remove; dispose; dispose }
EvictOldest(st) ==
  IF Len(st.active) = 0
    THEN st
    ELSE LET old == Head(st.active) IN
         [active |-> Tail(st.active),
          group |-> st.group \ {old},
          disposed |-> st.disposed \cup {old}]

\* active.unshift(...): admits the new explosion at the front
AdmitFirst(list, id) == <<id>> \o list

\* active.push({ points, geometry, material, age: 0, duration })
Admit(list, id) == Append(list, id)

\* spawn(position, options)
Spawn(options) ==
  /\ calls' = Append(calls, options.duration)
  /\ IF ~groupRef \/ TexKeyOf(options) \notin TextureKeys
       THEN UNCHANGED <<active, objs, group, disposed>>
       ELSE LET st0 == [active |-> active, group |-> group, disposed |-> disposed]
                st1 == IF AtCapacity(active, maxExplosions) THEN EvictOldest(st0) ELSE st0
                id == Len(objs) + 1
            IN /\ objs' = Append(objs, [age |-> 0,
                                        duration |-> DurationOf(options),
                                        uProgress |-> Zero])
               /\ group' = st1.group \cup {id}
               /\ disposed' = st1.disposed
               /\ active' = Admit(st1.active, id)
  /\ UNCHANGED <<groupRef, maxExplosions, removedInFrame, fwOthers>>

\* a frame that leaves the explosion as it is
AdvanceOneNoAge(st, i, delta) == st

\* the body of the useFrame loop for index i (1-based), on the loop state st
AdvanceOne(st, i, delta) ==
  LET id == st.active[i]
      age == st.objs[id].age + delta
      t == Progress(age, st.objs[id].duration)
      done == FracLeq(One, t)
      o == [st.objs EXCEPT ![id].age = age, ![id].uProgress = t]
  IN IF done
       THEN [active |-> SubSeq(st.active, 1, i - 1) \o SubSeq(st.active, i + 1, Len(st.active)),
             objs |-> o,
             group |-> st.group \ {id},
             disposed |-> st.disposed \cup {id}]
       ELSE [st EXCEPT !.objs = o]

\* for (let i = 0; i < active.length; i++) { ... }: after a splice the entry
\* that moved into slot i is skipped
RECURSIVE AdvanceForwardFrom(_, _, _)
AdvanceForwardFrom(st, i, delta) ==
  IF i > Len(st.active) THEN st ELSE AdvanceForwardFrom(AdvanceOne(st, i, delta), i + 1, delta)

AdvanceLoopForward(st, i, delta) == AdvanceForwardFrom(st, 1, delta)

\* for (let i = active.length - 1; i >= 0; i--) { ... }: the state after
\* slot i is computed once and handed to the rest of the loop
RECURSIVE AdvanceLoop(_, _, _)
AdvanceLoop(st, i, delta) ==
  IF i < 1
    THEN st
    ELSE CHOOSE r \in {AdvanceLoop(s1, i - 1, delta) : s1 \in {AdvanceOne(st, i, delta)}} : TRUE

\* useFrame((_, delta) => { ... })
Advance(delta) ==
  /\ IF ~groupRef \/ Len(active) = 0
       THEN UNCHANGED <<active, objs, group, disposed, removedInFrame>>
       ELSE LET st == AdvanceLoop([active |-> active, objs |-> objs,
                                   group |-> group, disposed |-> disposed],
                                  Len(active), delta)
            IN /\ active' = st.active
               /\ objs' = st.objs
               /\ group' = st.group
               /\ disposed' = st.disposed
               /\ removedInFrame' = Range(active) \ Range(st.active)
  /\ UNCHANGED <<groupRef, maxExplosions, calls, fwOthers>>

\* the commit that attaches <group ref={groupRef} /> and the imperative handle
Mount ==
  /\ ~groupRef
  /\ groupRef' = TRUE
  /\ UNCHANGED <<maxExplosions, active, objs, group, disposed, calls, removedInFrame, fwOthers>>

\* a caller holding the handle (NewYearsBackdrop useFrame: if (!shader) return)
SpawnCall ==
  /\ groupRef
  /\ Len(calls) < MaxSpawns
  /\ \E options \in SpawnOptions : Spawn(options)

\* a render frame with elapsed time delta
Frame ==
  /\ groupRef
  /\ Len(active) > 0
  /\ \E delta \in 0 .. MaxDelta : Advance(delta)

FireworksInit ==
  /\ FireworksIdle
  /\ maxExplosions \in 1 .. MaxCapacity
  /\ CountdownIdle
  /\ GoalsIdle
  /\ GregIdle
  /\ FormatIdle
  /\ ScrollIdle
  /\ ScrollingNumberIdle
  /\ PumpkinIdle

FireworksNext == Mount \/ SpawnCall \/ Frame

FireworksSpec == FireworksInit /\ [][FireworksNext]_vars

\* a render frame with positive elapsed time
PositiveFrame ==
  /\ groupRef
  /\ Len(active) > 0
  /\ \E delta \in 1 .. MaxDelta : Advance(delta)

\* the caller's spawn with or without a duration, the texture left to its default
LoopSpawnCall ==
  /\ groupRef
  /\ Len(calls) < LoopSpawns
  /\ \E options \in {o \in SpawnOptions : o.texture = Absent} : Spawn(options)

FireworksLoopNext == Mount \/ LoopSpawnCall \/ Frame

\* ShaderFireworks while the render loop keeps running: frames with positive
\* elapsed time keep coming as long as an explosion is active
FireworksLoopSpec ==
  FireworksInit /\ [][FireworksLoopNext]_vars /\ WF_fwVars(PositiveFrame)

\* ------------------------------------------------------------------------
\* The pumpkin scene: the sliding window of retained pumpkins
\* ------------------------------------------------------------------------
\* age of a pumpkin at time now
Age(pumpkin, now) == now - pumpkin.createdAt

\* the collection as it is, not truncated
KeepAll(list, k) == list

\* truncate the collection to its most recent k entries
KeepNewest(list, k) ==
  IF Len(list) <= k THEN list ELSE SubSeq(list, Len(list) - k + 1, Len(list))

\* one tick of the periodic timer at time now: remove the entries whose age
\* has reached the lifetime, append exactly one new entry, truncate to the
\* most recent K
PumpkinTick(now) ==
  LET Fresh(pumpkin) == Age(pumpkin, now) < pumpkinLifetime
      kept == SelectSeq(pumpkins, Fresh)
      appended == Append(kept, [id |-> pumpkinTicks + 1, createdAt |-> now])
      retained == KeepNewest(appended, pumpkinMax)
      Ids(list) == {list[i].id : i \in 1 .. Len(list)}
  IN /\ pumpkins' = retained
     /\ pumpkinNow' = now
     /\ pumpkinTicks' = pumpkinTicks + 1
     /\ pumpkinsExpired' = pumpkinsExpired \cup (Ids(pumpkins) \ Ids(kept))
     /\ pumpkinsCut' = pumpkinsCut \cup (Ids(appended) \ Ids(retained))
     /\ UNCHANGED <<pumpkinMax, pumpkinLifetime, pumpkinOthers>>

\* the timer fires, at its cadence or up to MaxLate later
PumpkinTimerFires ==
  /\ pumpkinTicks < MaxTicks
  /\ \E late \in 0 .. MaxLate : PumpkinTick(pumpkinNow + TickCadence + late)

PumpkinInit ==
  /\ PumpkinSceneEmpty
  /\ pumpkinMax \in 1 .. MaxPumpkins
  /\ pumpkinLifetime \in 1 .. MaxLifetime
  /\ FireworksIdle
  /\ maxExplosions = 1
  /\ CountdownIdle
  /\ GoalsIdle
  /\ GregIdle
  /\ FormatIdle
  /\ ScrollIdle
  /\ ScrollingNumberIdle

PumpkinNext == PumpkinTimerFires

PumpkinSpec == PumpkinInit /\ [][PumpkinNext]_vars

\* ------------------------------------------------------------------------
\* Properties of ShaderFireworks
\* ------------------------------------------------------------------------
\* the explosions that left the active list in this step
Removed == Range(active) \ Range(active')

\* this step is a spawn call
IsSpawnStep == Len(calls') = Len(calls) + 1

\* C1: after any sequence of spawn calls and frame advances the number of
\* active explosions is at most the configured capacity maxExplosions.
C1_ActiveWithinCapacity == Len(active) <= maxExplosions

\* C1 witness: the list is full and an explosion has already been evicted
\* to make room.
C1_Witness ==
  /\ Len(active) = maxExplosions
  /\ Len(objs) > maxExplosions
  /\ \E id \in disposed : objs[id].age = 0

\* C2 as stated: progress never decreases while an explosion is active, and
\* every explosion that leaves the active list has progress exactly 1 then.
C2_Original ==
  [][/\ \A id \in Range(active) \cap Range(active') :
          FracLeq(objs[id].uProgress, objs'[id].uProgress)
     /\ \A id \in Removed : FracEq(objs'[id].uProgress, One)]_vars

\* C2 amended: progress never decreases while an explosion is active; an
\* explosion removed by a frame advance has progress exactly 1 at removal;
\* the only other removal is the eviction of the oldest entry by a spawn at
\* capacity, which leaves the progress as it was (possibly below 1).
C2_ProgressMonotoneAndCompleteOrEvicted ==
  [][/\ \A id \in Range(active) \cap Range(active') :
          FracLeq(objs[id].uProgress, objs'[id].uProgress)
     /\ \A id \in Removed :
          \/ /\ ~IsSpawnStep
             /\ FracEq(objs'[id].uProgress, One)
          \/ /\ IsSpawnStep
             /\ id = Head(active)
             /\ Len(active) >= maxExplosions
             /\ objs'[id].uProgress = objs[id].uProgress]_vars

\* C2 witness: one explosion completed with progress 1 and another one was
\* evicted before it completed.
C2_Witness ==
  /\ \E id \in disposed : FracEq(objs[id].uProgress, One)
  /\ \E id \in disposed : ~FracEq(objs[id].uProgress, One)

\* C3: a spawn at capacity removes exactly the oldest active explosion from
\* the render group and disposes it, admits the new one, removes no other
\* explosion, and completes (the call is recorded, nothing is raised).
C3_EvictsExactlyOldest ==
  [][(IsSpawnStep /\ Len(active) >= maxExplosions) =>
       LET old == Head(active)
           new == Len(objs')
       IN /\ Removed = {old}
          /\ group' = (group \ {old}) \cup {new}
          /\ disposed' = disposed \cup {old}
          /\ active' = Append(Tail(active), new)]_vars

\* C3 witness: the list is full again after the oldest explosion, which had
\* been advanced but not completed, was evicted and disposed.
C3_Witness ==
  /\ Len(active) = maxExplosions
  /\ \E id \in disposed :
       /\ id \notin group
       /\ objs[id].age > 0
       /\ ~FracEq(objs[id].uProgress, One)

IsFrameStep == groupRef /\ ~IsSpawnStep

\* C20: a frame advance ages every active explosion by the frame's delta,
\* removes (from the list and the render group, disposing them) exactly
\* those whose progress has reached 1, and keeps all the others in their
\* previous relative order, also when several complete in the same frame.
C20_FrameRemovesExactlyCompleted ==
  [][IsFrameStep =>
       \E delta \in 0 .. MaxDelta :
         LET Completes(id) == objs[id].age + delta >= objs[id].duration
             Stays(id) == ~Completes(id)
             completed == {id \in Range(active) : Completes(id)}
         IN /\ \A id \in Range(active) : objs'[id].age = objs[id].age + delta
            /\ \A id \in completed : FracEq(objs'[id].uProgress, One)
            /\ active' = SelectSeq(active, Stays)
            /\ \A id \in Range(active') : ~FracEq(objs'[id].uProgress, One)
            /\ group' = group \ completed
            /\ disposed' = disposed \cup completed
            /\ removedInFrame' = completed]_vars

\* C20 witness: the latest frame removed two explosions at once, an older
\* one and the newest one, and the explosion between them stayed active.
C20_Witness ==
  /\ Cardinality(removedInFrame) = 2
  /\ Len(active) = 1
  /\ \E a \in removedInFrame : a < active[1]
  /\ \E b \in removedInFrame : b > active[1]
  /\ ~FracEq(objs[active[1]].uProgress, One)

\* ------------------------------------------------------------------------
\* Properties of the countdown
\* ------------------------------------------------------------------------
\* the instant u is 21:00:00 on the zone's wall clock
IsNinePmEastern(u) == WallClock(u).hour = NinePmHour /\ WallClock(u).minute = 0

\* the zone's wall clock at "now" is past 21:00:00 of the current day
PastNinePmToday ==
  LET w == WallClock(countdownNowMs)
  IN w.hour * Hour + w.minute > NinePmHour * Hour

\* C5 as stated: once 9:00 PM Eastern has passed (wall clock after 21:00:00)
\* the remaining time is 0, clamped, and isDeadlineReached is true.
C5_Original ==
  PastNinePmToday => (totalSeconds(msUntilNinePmEastern) = 0 /\ isDeadlineReached)

\* C6 as stated: getNextNinePmEasternUtc(now) is the earliest instant strictly
\* after now whose America/New_York wall clock reads 21:00:00 (so one tick
\* before 9 PM the remaining time is one tick).
C6_Original ==
  /\ nextNinePmEasternUtc > countdownNowMs
  /\ IsNinePmEastern(nextNinePmEasternUtc)
  /\ \A u \in countdownNowMs + 1 .. nextNinePmEasternUtc - 1 : ~IsNinePmEastern(u)

\* the requested wall-clock time exists in the zone (it is not skipped by
\* the clocks going forward)
ExistsInZone(parts) ==
  \E u \in DateUTC(parts) + EdtOffsetHours * Hour .. DateUTC(parts) + EstOffsetHours * Hour :
    WallClock(u) = parts

C8_Original ==
  [][/\ pressure(msUntilNinePmEastern) \in 0 .. windowMs
     /\ (msUntilNinePmEastern \in 0 .. windowMs =>
           pressure(msUntilNinePmEastern) = windowMs - msUntilNinePmEastern)
     /\ (countdownNowMs' > countdownNowMs =>
           pressure(msUntilNinePmEastern)' >= pressure(msUntilNinePmEastern))]_vars

\* ------------------------------------------------------------------------
\* Properties of the goal submission
\* ------------------------------------------------------------------------
\* this step is a run of handleGoalSubmit
IsSubmitStep == submits' = submits + 1

\* the text is empty or holds whitespace only
IsBlank(str) == \A i \in 1 .. Len(str) : str[i] = " "

\* one of the three fields is empty once whitespace is trimmed off
SomeFieldBlank == IsBlank(displayName) \/ IsBlank(goalTitle) \/ IsBlank(goalText)

\* C9: a submission in which the name, the title or the goal text is empty
\* after trimming sets the validation message and issues no backend call; the
\* goals list, the goal count and the loading flag are left as they were.
C9_BlankFieldRejected ==
  [][(IsSubmitStep /\ SomeFieldBlank) =>
       /\ goalSubmitError' = ValidationMessage
       /\ insertCalls' = insertCalls
       /\ pendingInsert' = pendingInsert
       /\ dbGoals' = dbGoals
       /\ goals' = goals
       /\ goalCount' = goalCount
       /\ goalSubmitLoading' = goalSubmitLoading]_vars

\* C9 witness: after one accepted goal, a second submission with a field of
\* blanks only was rejected: the message is set and only one insert was made.
C9_Witness ==
  /\ goalSubmitError = ValidationMessage
  /\ submits = 2
  /\ insertCalls = 1
  /\ Len(goals) = 1
  /\ ~goalSubmitLoading
  /\ SomeFieldBlank
  /\ displayName # <<>> /\ goalTitle # <<>> /\ goalText # <<>>

\* C10: a submission with all three fields present issues exactly one insert
\* (no other step issues one), and when the insert returns a row, that row
\* becomes the first element of the in-memory goals list.
C10_OneInsertAndRowFirst ==
  [][/\ (IsSubmitStep /\ ~SomeFieldBlank) =>
          /\ insertCalls' = insertCalls + 1
          /\ pendingInsert' = <<[display_name |-> Trim(displayName),
                                 title |-> Trim(goalTitle),
                                 goal_text |-> Trim(goalText)]>>
     /\ insertCalls' # insertCalls =>
          /\ IsSubmitStep
          /\ insertCalls' = insertCalls + 1
          /\ pendingInsert = <<>> /\ insertResponse = <<>>
     /\ (insertResponse # <<>> /\ insertResponse' = <<>> /\ insertResponse[1].data # <<>>) =>
          /\ goals' # <<>>
          /\ goals'[1] = insertResponse[1].data[1]]_vars

\* C10 witness: two submissions were inserted and answered; the list holds
\* both rows, the later one first.
C10_Witness ==
  /\ insertCalls = 2
  /\ Len(dbGoals) = 2
  /\ Len(goals) = 2
  /\ goals[1] = PublicRow(dbGoals[2])
  /\ goals[2] = PublicRow(dbGoals[1])
  /\ ~goalSubmitLoading

\* C11 as stated: no entry of the public goals list carries the goal_text
\* field, whichever way the entry came in (load, insert response, realtime).
C11_Original ==
  \A i \in 1 .. Len(goals) : "goal_text" \notin DOMAIN goals[i]

\* C12 as stated: the goals list is ordered by created_at, newest first.
C12_Original ==
  \A i \in 1 .. Len(goals) - 1 : goals[i].created_at >= goals[i + 1].created_at

\* ------------------------------------------------------------------------
\* ScrollIndicator
\* ------------------------------------------------------------------------
\* offsetTop of #scroll-container
ContainerOffsetTop == 0

\* the sections of #scroll-container as the browser lays them out: one below
\* the other after the container's top padding
SectionLayouts ==
  LET Place(heights, padding) ==
        LET bottom[i \in 0 .. Len(heights)] ==
              IF i = 0 THEN padding ELSE bottom[i - 1] + heights[i]
        IN [i \in 1 .. Len(heights) |->
              [offsetTop |-> bottom[i - 1], offsetHeight |-> heights[i]]]
  IN UNION {{Place(heights, padding) :
               heights \in [1 .. n -> 1 .. MaxHeight], padding \in 0 .. MaxPadding} :
            n \in 1 .. MaxSections}

\* the largest scrollTop: scrollHeight - clientHeight
MaxScrollTop(sections, height) ==
  LET last == sections[Len(sections)]
  IN Max(0, last.offsetTop + last.offsetHeight - height)

\* Math.min(activeSection + 1, sectionElements.length - 1), without the clamp
NextSectionIndexUnclamped(index, length) == index + 1

\* Math.min(activeSection + 1, sectionElements.length - 1)
NextSectionIndex(index, length) == Min(index + 1, length - 1)

\* Math.max(activeSection - 1, 0)
PrevSectionIndex(index) == Max(index - 1, 0)

\* twice scrollTop, the top of the viewport
TwiceScrollTop(top, height) == 2 * top

\* twice scrollY = scrollTop + clientHeight / 2, the midpoint of the viewport
TwiceScrollY(top, height) == 2 * top + height

\* sectionElements.findIndex of onScroll, counted from 0; -1 when no section
\* holds scrollY
FindIndex(sections, top, height) ==
  LET Holds(i) ==
        LET currentTop == sections[i].offsetTop + ContainerOffsetTop
            currentBottom == currentTop + sections[i].offsetHeight
        IN /\ TwiceScrollY(top, height) >= 2 * currentTop
           /\ TwiceScrollY(top, height) < 2 * currentBottom
      Found == {i \in 1 .. Len(sections) : Holds(i)}
  IN IF Found = {} THEN -1
     ELSE (CHOOSE i \in Found : \A j \in Found : i <= j) - 1

\* the first commit: the mount effect stores the sections, the listeners are
\* registered with the render that sees them
ScrollMount ==
  /\ lastHandler = "none"
  /\ sectionElements' \in SectionLayouts
  /\ clientHeight' \in 1 .. MaxHeight
  /\ lastHandler' = "mount"
  /\ UNCHANGED <<scrollTop, activeSection, scrollOthers>>

\* a scroll event at a new scroll position
onScroll ==
  /\ lastHandler # "none"
  /\ \E top \in 0 .. MaxScrollTop(sectionElements, clientHeight) :
       /\ top # scrollTop
       /\ scrollTop' = top
       /\ LET currentSectionIndex == FindIndex(sectionElements, top, clientHeight)
          IN activeSection' = IF currentSectionIndex # -1 THEN currentSectionIndex
                              ELSE activeSection
  /\ lastHandler' = "scroll"
  /\ UNCHANGED <<sectionElements, clientHeight, scrollOthers>>

\* scrollToSection(index): the smooth scroll it starts arrives as later
\* scroll events
scrollToSection(index) ==
  /\ activeSection' = index
  /\ UNCHANGED <<sectionElements, clientHeight, scrollTop, scrollOthers>>

\* a keydown event on the window
onKeyDown ==
  /\ lastHandler # "none"
  /\ \E key \in {"ArrowDown", "ArrowUp", "Enter"} :
       /\ lastHandler' = key
       /\ IF key = "ArrowDown"
            THEN scrollToSection(NextSectionIndex(activeSection, Len(sectionElements)))
            ELSE IF key = "ArrowUp"
              THEN scrollToSection(PrevSectionIndex(activeSection))
              ELSE UNCHANGED <<sectionElements, clientHeight, scrollTop, activeSection,
                               scrollOthers>>

\* a click on the button of a section
onClick ==
  /\ lastHandler # "none"
  /\ \E index \in 0 .. Len(sectionElements) - 1 : scrollToSection(index)
  /\ lastHandler' = "click"

ScrollInit ==
  /\ ScrollIdle
  /\ FireworksIdle
  /\ maxExplosions = 1
  /\ CountdownIdle
  /\ GoalsIdle
  /\ GregIdle
  /\ FormatIdle
  /\ ScrollingNumberIdle
  /\ PumpkinIdle

ScrollNext == ScrollMount \/ onScroll \/ onKeyDown \/ onClick

ScrollSpec == ScrollInit /\ [][ScrollNext]_vars

\* const ROW_COUNT = 200
ROW_COUNT == 200

\* a threshold five rows below the last row
NormalizeAtLate == ROW_COUNT - 5

\* const NORMALIZE_AT = 160
NORMALIZE_AT == 160

\* const NORMALIZE_BY = 100
NORMALIZE_BY == 100

\* the value prop: an integer, negative or not (Math.floor leaves an integer
\* as it is)
PropValues == -1 .. MaxValue

\* clampNonNegativeInt(n) for a finite n
clampNonNegativeInt(n) == Max(0, n)

\* ------------------------------------------------------------------------
\* ScrollingNumber
\* ------------------------------------------------------------------------
\* the values Math.floor(Math.random() * 10) takes in the model
RandomDigits == {0, 7}

\* String(safeValue).split('').reverse().map(Number)
RECURSIVE DigitsFromRight(_)
DigitsFromRight(value) ==
  IF value < 10 THEN <<value>> ELSE <<value % 10>> \o DigitsFromRight(value \div 10)

\* next[i] = prevPos + extraTurns * 10: whole turns only
computeForwardPositionsNoDelta(prevPositionsFromRight, targetDigitsFromRight, extraTurnsFromRight) ==
  [i \in 1 .. Len(targetDigitsFromRight) |->
     (IF i <= Len(prevPositionsFromRight) THEN prevPositionsFromRight[i] ELSE 0)
       + (IF i <= Len(extraTurnsFromRight) THEN extraTurnsFromRight[i] ELSE 0) * 10]

\* computeForwardPositions({prevPositionsFromRight, targetDigitsFromRight,
\* extraTurnsFromRight})
computeForwardPositions(prevPositionsFromRight, targetDigitsFromRight, extraTurnsFromRight) ==
  [i \in 1 .. Len(targetDigitsFromRight) |->
     LET prevPos == IF i <= Len(prevPositionsFromRight)
                      THEN prevPositionsFromRight[i] ELSE 0
         prevDigit == ((prevPos % 10) + 10) % 10
         deltaForward == (targetDigitsFromRight[i] - prevDigit + 10) % 10
         extraTurns == IF i <= Len(extraTurnsFromRight) THEN extraTurnsFromRight[i] ELSE 0
     IN prevPos + extraTurns * 10 + deltaForward]

\* one run of the value effect for the digits of value, after the cleanup of
\* the run before it: pending timers are cleared first; the first-reveal branch
\* and the reduced-motion branch return no cleanup
ValueEffect(value, reducedMotion) ==
  LET digitsFromRight == DigitsFromRight(value)
      newLen == Len(digitsFromRight)
  IN /\ snNormalized' = FALSE
     /\ IF reducedMotion
       THEN /\ snPositions' = digitsFromRight
            /\ snFirstRevealDone' = TRUE
            /\ snTimeout' = <<>>
            /\ snRaf' = <<>>
            /\ snCleanup' = FALSE
       ELSE IF ~snFirstRevealDone
         THEN /\ \E start \in [1 .. newLen -> RandomDigits] :
                   /\ snPositions' = start
                   /\ snTimeout' = <<[start |-> start, target |-> digitsFromRight]>>
              /\ snRaf' = <<>>
              /\ snCleanup' = FALSE
              /\ UNCHANGED snFirstRevealDone
         ELSE /\ IF Len(snPositions) < newLen
                   THEN \E added \in [1 .. newLen - Len(snPositions) -> RandomDigits] :
                          /\ snPositions' = snPositions \o added
                          /\ snRaf' = <<[start |-> snPositions \o added,
                                         target |-> digitsFromRight,
                                         kept |-> Len(snPositions),
                                         reveal |-> FALSE]>>
                   ELSE /\ snPositions' =
                             computeForwardPositions(SubSeq(snPositions, 1, newLen),
                                                     digitsFromRight, <<>>)
                        /\ snRaf' = <<>>
              /\ snTimeout' = <<>>
              /\ snCleanup' = TRUE
              /\ UNCHANGED snFirstRevealDone

\* positionsFromRight.reduce((m, v) => Math.max(m, v), 0)
MaxPosition(positions) ==
  LET rows == {positions[i] : i \in 1 .. Len(positions)} \cup {0}
  IN CHOOSE m \in rows : \A v \in rows : v <= m

\* the normalization effect finds a position at or past NORMALIZE_AT in the
\* positions just committed; it runs before anything else is handled
NormalizeDue ==
  /\ snPhase = "mounted"
  /\ ~snReduced
  /\ MaxPosition(snPositions) >= NORMALIZE_AT

\* prev.map((p) => (p >= NORMALIZE_AT ? p - NORMALIZE_BY : p))
NormalizePositions(prev) ==
  [i \in 1 .. Len(prev) |->
     IF prev[i] >= NORMALIZE_AT THEN prev[i] - NORMALIZE_BY ELSE prev[i]]

\* the first commit: the effects run with reducedMotion false, and once more
\* when the media query matches
SnMount ==
  /\ snPhase = "new"
  /\ snPhase' = "mounted"
  /\ \E value \in PropValues, matches \in BOOLEAN :
       /\ snValue' = value
       /\ snReduced' = matches
       /\ ValueEffect(clampNonNegativeInt(value), matches)
  /\ UNCHANGED <<snChanges, snOthers>>

\* the value prop changes; the value effect runs when safeValue changed
SnValueChange ==
  /\ snPhase = "mounted"
  /\ ~NormalizeDue
  /\ snChanges < MaxValueChanges
  /\ snChanges' = snChanges + 1
  /\ \E value \in PropValues \ {snValue} :
       /\ snValue' = value
       /\ IF clampNonNegativeInt(value) = clampNonNegativeInt(snValue)
            THEN UNCHANGED <<snPositions, snFirstRevealDone, snTimeout, snRaf, snCleanup,
                             snNormalized>>
            ELSE ValueEffect(clampNonNegativeInt(value), snReduced)
  /\ UNCHANGED <<snPhase, snReduced, snOthers>>

\* the change event of the (prefers-reduced-motion: reduce) media query
ReducedMotionChange ==
  /\ snPhase = "mounted"
  /\ ~NormalizeDue
  /\ snReduced' = ~snReduced
  /\ ValueEffect(clampNonNegativeInt(snValue), ~snReduced)
  /\ UNCHANGED <<snPhase, snValue, snChanges, snOthers>>

\* the reveal timeout fires: it requests the animation frame
SnTimeoutFires ==
  /\ snTimeout # <<>>
  /\ ~NormalizeDue
  /\ snRaf' = <<[start |-> snTimeout[1].start, target |-> snTimeout[1].target,
                 kept |-> 0, reveal |-> TRUE]>>
  /\ snTimeout' = <<>>
  /\ UNCHANGED <<snPhase, snValue, snReduced, snPositions, snFirstRevealDone, snCleanup,
                 snChanges, snNormalized, snOthers>>

\* the animation frame fires: the columns roll to their digits; the state
\* update has no effect once the component is unmounted
SnRafFires ==
  /\ snRaf # <<>>
  /\ ~NormalizeDue
  /\ LET f == snRaf[1]
     IN /\ \E turns \in [1 .. Len(f.start) -> {1, 2}] :
             LET extraTurns == [i \in 1 .. Len(f.start) |->
                                  IF i > f.kept THEN turns[i] ELSE 0]
             IN snPositions' =
                  IF snPhase = "mounted"
                    THEN computeForwardPositions(f.start, f.target, extraTurns)
                    ELSE snPositions
        /\ snFirstRevealDone' = (snFirstRevealDone \/ f.reveal)
  /\ snRaf' = <<>>
  /\ snNormalized' = (snNormalized /\ snPhase # "mounted")
  /\ UNCHANGED <<snPhase, snValue, snReduced, snTimeout, snCleanup, snChanges, snOthers>>

\* the normalization effect: the rows at or past NORMALIZE_AT move back by
\* NORMALIZE_BY
SnNormalize ==
  /\ NormalizeDue
  /\ snPositions' = NormalizePositions(snPositions)
  /\ snNormalized' = TRUE
  /\ UNCHANGED <<snPhase, snValue, snReduced, snFirstRevealDone, snTimeout, snRaf, snCleanup,
                 snChanges, snOthers>>

\* the component is unmounted: the cleanup of the latest run of the value
\* effect, when that run returned one, clears the timeout and the frame
SnUnmount ==
  /\ snPhase = "mounted"
  /\ ~NormalizeDue
  /\ snPhase' = "unmounted"
  /\ IF snCleanup
       THEN snTimeout' = <<>> /\ snRaf' = <<>>
       ELSE UNCHANGED <<snTimeout, snRaf>>
  /\ UNCHANGED <<snValue, snReduced, snPositions, snFirstRevealDone, snCleanup, snChanges,
                 snNormalized, snOthers>>

ScrollingNumberInit ==
  /\ ScrollingNumberIdle
  /\ PumpkinIdle
  /\ FireworksIdle
  /\ maxExplosions = 1
  /\ CountdownIdle
  /\ GoalsIdle
  /\ GregIdle
  /\ FormatIdle
  /\ ScrollIdle

ScrollingNumberNext ==
  \/ SnMount
  \/ SnValueChange
  \/ ReducedMotionChange
  \/ SnTimeoutFires
  \/ SnRafFires
  \/ SnUnmount

ScrollingNumberSpec == ScrollingNumberInit /\ [][ScrollingNumberNext]_vars

\* a mounted ScrollingNumber long after its first reveal, at rest: every column
\* stands on its digit, on a row of the last LateRows rows below NORMALIZE_AT
SnRevealedLongAgo ==
  /\ snPhase = "mounted"
  /\ snReduced = FALSE
  /\ snFirstRevealDone = TRUE
  /\ snTimeout = <<>>
  /\ snRaf = <<>>
  /\ snCleanup = TRUE
  /\ snChanges = 0
  /\ snNormalized = FALSE
  /\ snValue \in PropValues
  /\ LET digitsFromRight == DigitsFromRight(clampNonNegativeInt(snValue))
     IN snPositions \in
          {p \in [1 .. Len(digitsFromRight) -> NORMALIZE_AT - LateRows .. NORMALIZE_AT - 1] :
             \A i \in 1 .. Len(digitsFromRight) : p[i] % 10 = digitsFromRight[i]}

\* ScrollingNumber from its first commit, or from a rest long after it
ScrollingNumberLifeInit ==
  /\ ScrollingNumberIdle \/ SnRevealedLongAgo
  /\ PumpkinIdle
  /\ FireworksIdle
  /\ maxExplosions = 1
  /\ CountdownIdle
  /\ GoalsIdle
  /\ GregIdle
  /\ FormatIdle
  /\ ScrollIdle

ScrollingNumberLifeNext == ScrollingNumberNext \/ SnNormalize

ScrollingNumberLifeSpec == ScrollingNumberLifeInit /\ [][ScrollingNumberLifeNext]_vars

\* ------------------------------------------------------------------------
\* Properties of formatSupabaseDataError
\* ------------------------------------------------------------------------
\* the same letter, in either case
SameLetter(a, b) ==
  \/ a = b
  \/ \E k \in 1 .. Len(Upper) :
       \/ a = Upper[k] /\ b = Lower[k]
       \/ a = Lower[k] /\ b = Upper[k]

\* the text contains the phrase, whatever the case of its letters
ContainsIgnoreCase(str, phrase) ==
  \E i \in 1 .. Len(str) - Len(phrase) + 1 :
    \A j \in 1 .. Len(phrase) : SameLetter(str[i + j - 1], phrase[j])

\* the error says that the table is missing: status 404, or code 42P01, or a
\* message with 'not found', 'relation' or 'does not exist' in any case
SaysTableMissing(e) ==
  \/ e.status = {404}
  \/ e.code = {"42P01"}
  \/ /\ e.message # {}
     /\ \E text \in e.message :
          \/ ContainsIgnoreCase(text, <<"n", "o", "t", " ", "f", "o", "u", "n", "d">>)
          \/ ContainsIgnoreCase(text, <<"r", "e", "l", "a", "t", "i", "o", "n">>)
          \/ ContainsIgnoreCase(text, <<"d", "o", "e", "s", " ", "n", "o", "t", " ",
                                        "e", "x", "i", "s", "t">>)

\* C18: formatSupabaseDataError returns null when there is no error, the
\* 'table not found' message exactly when the error has status 404, or code
\* 42P01, or a message containing 'not found', 'relation' or 'does not exist'
\* in any case, and the generic 'Supabase error' message for every other error.
C18_FormatSupabaseDataError ==
  fmtDone =>
    IF fmtErr = <<>>
      THEN fmtResult = NoMessage
      ELSE IF SaysTableMissing(fmtErr[1])
        THEN fmtResult = TableNotFoundMessage
        ELSE fmtResult = SupabaseErrorMessage

\* C18 witness: an error without status and code whose message holds
\* RELATION in capitals between other characters got the 'table not found'
\* message.
C18_Witness ==
  /\ fmtDone
  /\ fmtErr # <<>>
  /\ fmtErr[1].status = {}
  /\ fmtErr[1].code = {}
  /\ fmtErr[1].message = {<<"x", "R", "E", "L", "A", "T", "I", "O", "N", "x">>}
  /\ fmtResult = TableNotFoundMessage

\* ------------------------------------------------------------------------
\* Properties of ScrollIndicator
\* ------------------------------------------------------------------------
\* the sections whose extent [top, bottom) holds the midpoint of the viewport
\* at scroll position top (compared in half pixels)
SectionsAtMidpoint(top) ==
  {i \in 0 .. Len(sectionElements) - 1 :
     /\ 2 * sectionElements[i + 1].offsetTop <= 2 * top + clientHeight
     /\ 2 * top + clientHeight
          < 2 * (sectionElements[i + 1].offsetTop + sectionElements[i + 1].offsetHeight)}

C14_ScrollSelectsSectionAtMidpoint ==
  [][lastHandler' = "scroll" =>
       IF SectionsAtMidpoint(scrollTop') # {}
         THEN SectionsAtMidpoint(scrollTop') = {activeSection'}
         ELSE activeSection' = activeSection]_vars

\* C14 witness: a scroll event left the midpoint of the viewport above the
\* first section (inside the top padding) and the second section stayed active.
C14_Witness ==
  /\ lastHandler = "scroll"
  /\ Len(sectionElements) >= 2
  /\ SectionsAtMidpoint(scrollTop) = {}
  /\ activeSection = 1

\* ------------------------------------------------------------------------
\* Properties of the Greg page
\* ------------------------------------------------------------------------
\* C19: the Greg view becomes unlocked only in a step taken with the entered
\* password equal to a non-empty configured password; a full-text goals
\* query is issued only into a state on the Greg route with the view
\* unlocked; with a wrong or empty password entered the view stays locked
\* and no query is issued.
C19_GateGuardsFullTextQuery ==
  /\ ~gregUnlocked /\ gregQueries = 0
  /\ [][/\ (~gregUnlocked /\ gregUnlocked') =>
             (gregPassword = expectedPassword /\ expectedPassword # "")
        /\ gregQueries' # gregQueries =>
             /\ gregQueries' = gregQueries + 1
             /\ loc'.pathname = "/greg/" \/ loc'.hash = "#/GREG"
             /\ gregUnlocked'
        /\ (~gregUnlocked /\ (gregPassword # expectedPassword \/ gregPassword = "")) =>
             (~gregUnlocked' /\ gregQueries' = gregQueries)]_vars

\* C19 witness: the view was unlocked, its query was issued and answered with
\* a full-text row, and the page has since moved off the Greg route without
\* a second query.
C19_Witness ==
  /\ gregUnlocked
  /\ loc = HomeLocation
  /\ gregQueries = 1
  /\ gregQueriesInFlight = 0
  /\ Len(gregGoals) = 1
  /\ "goal_text" \in DOMAIN gregGoals[1]

\* ------------------------------------------------------------------------
\* Properties of the two forms
\* ------------------------------------------------------------------------
\* the field is empty or holds only blanks
Blank(field) == \A i \in 1 .. Len(field) : field[i] = " "

\* a message is shown
Shown(message) == message # NoMessage /\ message # ""

BackendNotConfigured ==
  \/ supabaseUrl \in {{}, {""}}
  \/ (IF supabasePublishableKey # {} THEN supabasePublishableKey ELSE supabaseAnonKey)
       \in {{}, {""}}

\* C16: when the URL or the key is missing, no insert, load, subscription,
\* full-text query, upload or publish call is ever issued, the goal submit
\* button is disabled, and a run of handleGoalSubmit or of
\* handlePublishGregUpdate does nothing but set the 'Supabase is not
\* configured' error of its form.
C16_NoBackendNoCalls ==
  BackendNotConfigured =>
    /\ insertCalls = 0 /\ pendingInsert = <<>> /\ insertResponse = <<>>
    /\ ~loadPending /\ loadResponse = <<>>
    /\ ~channelSubscribed /\ realtimeQueue = <<>>
    /\ gregQueries = 0 /\ uploadCalls = 0 /\ updateInsertCalls = 0
    /\ GoalSubmitDisabled
    /\ ~ENABLED GoalFormSubmit
    /\ ENABLED handleGoalSubmit
    /\ ~ENABLED (handleGoalSubmit
                   /\ ~(/\ goalSubmitError' = NotConfiguredMessage
                        /\ UNCHANGED <<envVars, formVars, goalSubmitLoading, goalSubmitSuccess,
                                       confetti, listVars, netVars, loadVars, rtVars,
                                       goalOthers>>))
    /\ ENABLED handlePublishGregUpdate
    /\ ~ENABLED (handlePublishGregUpdate
                   /\ ~(/\ gregActionError' = NotConfiguredMessage
                        /\ UNCHANGED <<loc, gateVars, gregQueryVars, publishFormVars,
                                       gregActionLoading, gregActionSuccess, uploadPending,
                                       updateInsertPending, uploadCalls, updateInsertCalls,
                                       dbUpdates, latestUpdate, gregOthers>>))

\* C16 witness: the URL is set and both keys are missing, the page is mounted
\* and the three fields of the goal form are filled in.
C16_Witness ==
  /\ supabaseUrl = {"set"}
  /\ supabasePublishableKey = {}
  /\ supabaseAnonKey = {}
  /\ appMounted
  /\ Trim(displayName) # <<>> /\ Trim(goalTitle) # <<>> /\ Trim(goalText) # <<>>

\* ------------------------------------------------------------------------
\* Properties of teardown
\* ------------------------------------------------------------------------
\* C17: after ScrollingNumber is unmounted, neither its reveal timeout nor
\* one of its animation frames fires.
C17_Original ==
  [][snPhase = "unmounted" => (snTimeout' = snTimeout /\ snRaf' = snRaf)]_vars

\* ------------------------------------------------------------------------
\* Properties of the goals wall
\* ------------------------------------------------------------------------
\* C23: the public goals list never holds two entries with the same id.
C23_Original ==
  \A i, j \in 1 .. Len(goals) : i # j => goals[i].id # goals[j].id

\* nothing is on its way: load() has been answered without an error and
\* applied, no insert is awaited, every notification has been delivered
WallQuiet ==
  /\ ~loadPending /\ loadResponse = <<>> /\ supabaseDataError = NoMessage
  /\ pendingInsert = <<>> /\ insertResponse = <<>>
  /\ realtimeQueue = <<>>

\* C24: once load() is applied and every insert response and notification
\* has arrived, goalCount is the number of rows of the table: the loaded
\* count plus one for every row inserted since, by this guest or another.
C24_Original == WallQuiet => goalCount = Len(dbGoals)

\* C25: a row of the list stays in the list as long as the table holds fewer
\* than 50 (GoalsLimit) newer rows; a load() response applied later does not
\* remove it.
C25_Original ==
  [][\A i \in 1 .. Len(goals) :
       Cardinality({k \in 1 .. Len(dbGoals') :
                      dbGoals'[k].created_at > goals[i].created_at}) < GoalsLimit
         => \E j \in 1 .. Len(goals') : goals'[j].id = goals[i].id]_vars

\* C26: the public goals list never has more than 50 (GoalsLimit) entries.
C26_ListWithinLimit == Len(goals) <= GoalsLimit

\* C26 witness: the table holds more rows than the limit, all of them have
\* been notified, and the list is full.
C26_Witness ==
  /\ Len(dbGoals) > GoalsLimit
  /\ realtimeQueue = <<>>
  /\ insertResponse = <<>>
  /\ Len(goals) = GoalsLimit

\* ------------------------------------------------------------------------
\* Properties of handlePublishGregUpdate
\* ------------------------------------------------------------------------
\* a step of handlePublishGregUpdate: its start or one of its continuations
IsPublishStep ==
  \/ publishes' # publishes
  \/ uploadPending' # uploadPending
  \/ updateInsertPending' # updateInsertPending

\* C27: a run of handlePublishGregUpdate with a blank title, a blank message
\* or no file issues no upload and no insert; the insert into greg_updates is
\* issued only by the continuation of an upload that succeeded; latestUpdate
\* and the form fields are changed by the handler only when the insert has
\* stored its row.
C27_PublishOrder ==
  [][/\ (publishes' # publishes
           /\ (Blank(updateTitle) \/ Blank(updateBody) \/ updateVideoFile = <<>>)) =>
          /\ uploadCalls' = uploadCalls /\ uploadPending' = <<>>
          /\ updateInsertCalls' = updateInsertCalls /\ updateInsertPending' = <<>>
     /\ uploadCalls' # uploadCalls =>
          /\ publishes' # publishes
          /\ uploadCalls' = uploadCalls + 1
          /\ updateInsertCalls' = updateInsertCalls
     /\ updateInsertCalls' # updateInsertCalls =>
          /\ uploadPending # <<>> /\ uploadPending' = <<>>
          /\ updateInsertCalls' = updateInsertCalls + 1
          /\ updateInsertCalls' <= uploadCalls
          /\ updateInsertPending' = uploadPending
          /\ gregActionError' = gregActionError /\ gregActionLoading'
     /\ dbUpdates' # dbUpdates =>
          /\ updateInsertPending # <<>>
          /\ Len(dbUpdates') = Len(dbUpdates) + 1
          /\ Len(dbUpdates') <= updateInsertCalls
     /\ latestUpdate' # latestUpdate =>
          /\ dbUpdates' # dbUpdates
          /\ latestUpdate' = <<dbUpdates'[Len(dbUpdates')]>>
     /\ (IsPublishStep /\ dbUpdates' = dbUpdates) =>
          UNCHANGED <<updateTitle, updateBody, updateVideoFile, latestUpdate>>]_vars

\* C27 witness: of two runs that got past the validation one stopped at a
\* failed upload and the other stored its row, which is now latestUpdate,
\* and cleared the form.
C27_Witness ==
  /\ uploadCalls = 2
  /\ updateInsertCalls = 1
  /\ Len(dbUpdates) = 1
  /\ latestUpdate = <<dbUpdates[1]>>
  /\ updateTitle = <<>> /\ updateBody = <<>> /\ updateVideoFile = <<>>
  /\ ~gregActionLoading

\* ------------------------------------------------------------------------
\* Properties of the confetti flag
\* ------------------------------------------------------------------------
\* C28: whenever the confetti flag is true it becomes false again: the
\* timeout set by the effect fires while App stays mounted, so the flag is
\* never stuck at true.
C28_ConfettiResets == confetti ~> ~confetti

\* C28 witness: a goal was stored, the confetti flag was raised with the
\* success message and the timeout has put it back to false.
C28_Witness ==
  /\ goalSubmitSuccess = SuccessMessage
  /\ Len(goals) > 0
  /\ ~confetti
  /\ ~goalSubmitLoading

\* ------------------------------------------------------------------------
\* Termination of the explosions
\* ------------------------------------------------------------------------
\* C22: while frames with positive elapsed time keep coming, every admitted
\* explosion is eventually out of the active list and out of the render
\* group; none stays active forever.
C22_EveryExplosionRemoved ==
  \A id \in 1 .. LoopSpawns :
    (id \in Range(active)) ~> (id \notin Range(active) /\ id \notin group)

\* C22 witness: every admitted explosion is gone from the list and the
\* group, one of them evicted before it was complete and one removed by a
\* frame at progress 1.
C22_Witness ==
  /\ Len(objs) >= 2
  /\ active = <<>>
  /\ group = {}
  /\ \E id \in disposed : ~FracEq(objs[id].uProgress, One)
  /\ \E id \in disposed : FracEq(objs[id].uProgress, One)

\* ------------------------------------------------------------------------
\* Properties of ScrollingNumber
\* ------------------------------------------------------------------------
\* the value effect and every roll it scheduled have run
SnAtRest == snPhase = "mounted" /\ snTimeout = <<>> /\ snRaf = <<>>

\* a step that rolls the columns: the positions change after the reveal, with
\* motion, and not by the normalization
IsRollStep ==
  /\ snPositions' # snPositions
  /\ ~snReduced'
  /\ snFirstRevealDone'
  /\ ~snNormalized'

\* C29: once the value effect and the rolls it scheduled have run, column i
\* stands on a position that is, modulo 10, the i-th digit from the right of
\* the clamped value; a roll moves no column backward; a normalization takes
\* NORMALIZE_BY off the positions at or past NORMALIZE_AT and leaves every
\* position modulo 10 as it was.
C29_ColumnsShowDigits ==
  /\ [](SnAtRest =>
          LET digitsFromRight == DigitsFromRight(clampNonNegativeInt(snValue))
          IN /\ Len(snPositions) = Len(digitsFromRight)
             /\ \A i \in 1 .. Len(snPositions) : snPositions[i] % 10 = digitsFromRight[i])
  /\ [][IsRollStep =>
          \A i \in 1 .. Min(Len(snPositions), Len(snPositions')) :
            snPositions'[i] >= snPositions[i]]_vars
  /\ [][(snNormalized' /\ snPositions' # snPositions) =>
          /\ Len(snPositions') = Len(snPositions)
          /\ \A i \in 1 .. Len(snPositions) :
               /\ snPositions'[i] % 10 = snPositions[i] % 10
               /\ snPositions'[i] \in {snPositions[i], snPositions[i] - NORMALIZE_BY}
               /\ snPositions'[i] < NORMALIZE_AT]_vars

\* C29 witness: 9 grew to 10 on row NORMALIZE_AT - 1; the units column rolled
\* one row on, both columns are at rest after a normalization, the units
\* column NORMALIZE_BY rows back.
C29_Witness ==
  /\ SnAtRest
  /\ snNormalized
  /\ snValue = 10
  /\ Len(snPositions) = 2
  /\ snPositions[1] = NORMALIZE_AT - NORMALIZE_BY
  /\ snPositions[2] % 10 = 1

\* C30: every column stands on one of the rows 0 .. ROW_COUNT - 1, in every
\* state: after value changes, growth and shrink of the digit count, the
\* first reveal and normalization.
C30_PositionsWithinRows ==
  \A i \in 1 .. Len(snPositions) : snPositions[i] \in 0 .. ROW_COUNT - 1

\* C30 witness: a value change has rolled a column 8 rows past NORMALIZE_AT
\* and the normalization has not run yet.
C30_Witness ==
  /\ snChanges > 0
  /\ NormalizeDue
  /\ MaxPosition(snPositions) = NORMALIZE_AT + 8

\* ------------------------------------------------------------------------
\* Properties of the pumpkin window
\* ------------------------------------------------------------------------
\* C21: after every tick the retained collection has at most K entries and
\* holds no pumpkin whose age has reached the lifetime.
C21_WindowBounded ==
  pumpkinTicks > 0 =>
    /\ Len(pumpkins) <= pumpkinMax
    /\ \A i \in 1 .. Len(pumpkins) : Age(pumpkins[i], pumpkinNow) < pumpkinLifetime

\* C21 witness: the window is full with two pumpkins, one pumpkin has been
\* removed by its age and another by the truncation.
C21_Witness ==
  /\ pumpkinMax = 2
  /\ Len(pumpkins) = 2
  /\ pumpkinsExpired # {}
  /\ pumpkinsCut # {}

====
